---- MODULE Spec2Model ----
(***************************************************************************)
(* A model of note-to-wikijs: the image reference resolver                 *)
(* (src/src/image-tag-processor.ts), the asset folder materializer and the *)
(* page mutations (src/src/wikijs-api.ts) and the upload dialog            *)
(* (src/unnamed/part_005, the UploadModal).                                *)
(*                                                                         *)
(* Strings are sequences of one-character strings, so that split, trim,    *)
(* startsWith, toLowerCase and the regular-expression replacements of the  *)
(* source are computed and not assumed.                                    *)
(***************************************************************************)
EXTENDS Integers, Sequences, FiniteSets, TLC

VARIABLES
    \* ---- the vault and one run of ImageTagProcessor.resolveImageFiles ----
    vaultFiles,     \* the paths of the files of the vault (app.vault)
    filesRev,       \* the order in which vault.getFiles() lists the files
    sourceFile,     \* the note the references are resolved against
    images,         \* the batch: a sequence of [name, path]
    imgIdx,         \* position of the for loop of resolveImageFiles
    linkDest,       \* what metadataCache.getFirstLinkpathDest answered, per image
    resolved,       \* what resolveImageFile returned, per image
    imageFileMap    \* the Map<string, TFile> built so far: key |-> file

resolveVars == <<vaultFiles, filesRev, sourceFile, images, imgIdx, linkDest,
                 resolved, imageFileMap>>

VARIABLES
    \* ---- the remote store (Wiki.js) ----
    folders,        \* the asset folders: records [id, parentId, slug, name, by]
    nextId,         \* the identifier the remote assigns next
    failures,       \* how many requests have failed so far
    \* ---- the clients running WikiJSAPI.ensureAssetFolderPath ----
    cl,             \* per client: the position and locals of the running call
    runs            \* per client: the calls that returned, [path, ret, degraded]

remoteVars == <<folders, nextId, failures>>
folderVars == <<cl, runs>>

VARIABLES
    \* ---- one UploadModal and the pages and assets of the remote ----
    pages,          \* the pages of the remote: records [id, path, by, updates]
    assets,         \* the uploaded assets: records [folderId, name]
    up              \* the modal: its inputs and the position of performUpload

uploadVars == <<pages, assets, up>>

VARIABLES
    \* ---- one note going through the MarkdownProcessor of an UploadModal ----
    settings,       \* plugin.settings, the object the processor and the api hold
    note,           \* the file of the modal: [content, name, folder]
    fields,         \* what initializeFields filled in, NotCalled before it ran
    finalProcessed, \* performUpload's processMarkdown calls: [pagePath, result]
    dialog          \* the form of the modal: whether onOpen has run, what it
                    \* rendered, and the fields that were read while unset

noteVars == <<settings, note, fields, finalProcessed, dialog>>

vars == <<resolveVars, remoteVars, folderVars, uploadVars, noteVars>>

-----------------------------------------------------------------------------
(* Strings *)

\* "abc" as <<"a","b","c">>: the literals used below
Slash == <<"/">>
EmptyStr == <<>>

Whitespace == {" ", "\t", "\n", "\r", "\f"}

UpperChars == <<"A","B","C","D","E","F","G","H","I","J","K","L","M","N","O","P","Q","R","S","T","U","V","W","X","Y","Z">>
LowerChars == <<"a","b","c","d","e","f","g","h","i","j","k","l","m","n","o","p","q","r","s","t","u","v","w","x","y","z">>

ToLowerChar(c) ==
    IF \E i \in DOMAIN UpperChars : UpperChars[i] = c
    THEN LowerChars[CHOOSE i \in DOMAIN UpperChars : UpperChars[i] = c]
    ELSE c

\* String.prototype.toLowerCase
ToLowerCase(s) == [i \in DOMAIN s |-> ToLowerChar(s[i])]

\* String.prototype.startsWith
StartsWith(s, p) == Len(s) >= Len(p) /\ SubSeq(s, 1, Len(p)) = p

\* String.prototype.substring(n)
Substring(s, n) == SubSeq(s, n + 1, Len(s))

\* String.prototype.includes, for one character
Includes(s, ch) == \E i \in DOMAIN s : s[i] = ch

\* String.prototype.indexOf for one character, 1-based, 0 when absent
RECURSIVE IndexFrom(_, _, _)
IndexFrom(s, ch, i) ==
    IF i > Len(s) THEN 0 ELSE IF s[i] = ch THEN i ELSE IndexFrom(s, ch, i + 1)

IndexOf(s, ch) == IndexFrom(s, ch, 1)

\* String.prototype.split for a one-character separator
RECURSIVE Split(_, _)
Split(s, ch) ==
    LET i == IndexOf(s, ch)
    IN IF i = 0 THEN <<s>>
       ELSE <<SubSeq(s, 1, i - 1)>> \o Split(SubSeq(s, i + 1, Len(s)), ch)

\* Array.prototype.join for a one-character separator
RECURSIVE Join(_, _)
Join(parts, ch) ==
    IF Len(parts) = 0 THEN EmptyStr
    ELSE IF Len(parts) = 1 THEN parts[1]
    ELSE parts[1] \o <<ch>> \o Join(Tail(parts), ch)

RECURSIVE TrimStart(_)
TrimStart(s) ==
    IF Len(s) > 0 /\ s[1] \in Whitespace THEN TrimStart(Tail(s)) ELSE s

RECURSIVE TrimEnd(_)
TrimEnd(s) ==
    IF Len(s) > 0 /\ s[Len(s)] \in Whitespace THEN TrimEnd(SubSeq(s, 1, Len(s) - 1)) ELSE s

\* String.prototype.trim
Trim(s) == TrimEnd(TrimStart(s))

\* Array.prototype.pop() of a split: the last part
LastPart(parts) == parts[Len(parts)]

\* replace(/([\\/])+/g, '/'): every run of slashes and backslashes becomes one slash
RECURSIVE CollapseSlashes(_)
CollapseSlashes(s) ==
    IF Len(s) = 0 THEN s
    ELSE IF s[1] \in {"/", "\\"}
         THEN IF Len(s) > 1 /\ s[2] \in {"/", "\\"}
              THEN CollapseSlashes(Tail(s))
              ELSE Slash \o CollapseSlashes(Tail(s))
         ELSE <<s[1]>> \o CollapseSlashes(Tail(s))

\* obsidian's normalizePath: slashes collapsed, leading and trailing slash
\* removed, the empty path is "/"
normalizePath(p) ==
    LET c == CollapseSlashes(p)
        a == IF StartsWith(c, Slash) THEN Substring(c, 1) ELSE c
        b == IF Len(a) > 0 /\ a[Len(a)] = "/" THEN SubSeq(a, 1, Len(a) - 1) ELSE a
    IN IF b = EmptyStr THEN Slash ELSE b

-----------------------------------------------------------------------------
(* The vault: app.vault and the TFile / TFolder objects *)

\* no TFile: the null of the source
NoFile == EmptyStr
\* metadataCache.getFirstLinkpathDest raised
LinkThrows == <<"!">>

\* TAbstractFile.parent.path: the containing folder, "/" for the vault root
ParentPath(p) ==
    LET parts == Split(p, "/")
    IN IF Len(parts) <= 1 THEN Slash
       ELSE Join(SubSeq(parts, 1, Len(parts) - 1), "/")

\* TFile.name
FileName(p) == LastPart(Split(p, "/"))

RECURSIVE Ancestors(_)
Ancestors(p) ==
    IF ParentPath(p) = Slash THEN {Slash}
    ELSE {ParentPath(p)} \cup Ancestors(ParentPath(p))

\* the TFolder objects of the vault: the root and every folder holding a file
VaultFolders(files) == {Slash} \cup UNION {Ancestors(f) : f \in files}

\* vault.getAbstractFileByPath(p) instanceof TFile
IsTFile(files, p) == p \in files
\* vault.getAbstractFileByPath(p) is a folder ('children' in folder)
IsTFolder(files, p) == p \in VaultFolders(files)
\* getAbstractFileByPath(p)?.parent is null for the root and for a path that
\* names nothing
HasParent(files, p) == (IsTFile(files, p) \/ IsTFolder(files, p)) /\ p # Slash

-----------------------------------------------------------------------------
(* ImageTagProcessor.resolveImageFile *)

\* the candidate files of the vault, in the order vault.getFiles() lists them
FileUniverse == <<
    <<"a",".","p","n","g">>,
    <<"n","/","a",".","p","n","g">>,
    <<"n","/","a","s","s","e","t","s","/","a",".","p","n","g">>,
    <<"i","m","a","g","e","s","/","a",".","p","n","g">>,
    <<"x","/","a",".","p","n","g">>,
    <<"x","/","b">>,
    <<"x","/","b",".","j","p","g">> >>

\* the files of the vault of the upload scenarios, listed after the others
UploadFiles == <<
    <<"n","/","M","y"," ","P","i","c",".","p","n","g">> >>

\* the notes a batch is resolved against
SourceUniverse == {
    <<"n","o","t","e",".","m","d">>,
    <<"n","/","n","o","t","e",".","m","d">> }

RECURSIVE SelectSeqIn(_, _)
SelectSeqIn(seq, set) ==
    IF Len(seq) = 0 THEN <<>>
    ELSE (IF seq[1] \in set THEN <<seq[1]>> ELSE <<>>) \o SelectSeqIn(Tail(seq), set)

RECURSIVE Reverse(_)
Reverse(seq) == IF Len(seq) = 0 THEN <<>> ELSE Reverse(Tail(seq)) \o <<seq[1]>>

\* vault.getFiles(): every file, in an order the host chooses
getFiles(files, rev) ==
    LET listed == SelectSeqIn(FileUniverse \o UploadFiles, files)
    IN IF rev THEN Reverse(listed) ELSE listed

\* the predicate of the find calls of lines 117-148: the file is named name,
\* in any folder (dir = NoFile) or in the folder dir
NamedIn(f, name, dir) ==
    /\ FileName(f) = name
    /\ (dir = NoFile \/ ParentPath(f) = dir)

\* Array.prototype.find with that predicate: the first such file, or NoFile
RECURSIVE FindFile(_, _, _)
FindFile(seq, name, dir) ==
    IF Len(seq) = 0 THEN NoFile
    ELSE IF NamedIn(seq[1], name, dir) THEN seq[1]
    ELSE FindFile(Tail(seq), name, dir)

\* line 20: imagePath.split('?')[0].split('#')[0].trim()
CleanPath(imagePath) == Trim(Split(Split(imagePath, "?")[1], "#")[1])

\* line 23: external links are skipped
IsExternal(cleanPath) ==
    \/ StartsWith(cleanPath, <<"h","t","t","p",":","/","/">>)
    \/ StartsWith(cleanPath, <<"h","t","t","p","s",":","/","/">>)
    \/ StartsWith(cleanPath, <<"d","a","t","a",":">>)

\* lines 28-38: the answer of metadataCache.getFirstLinkpathDest, when it is a
\* TFile; an exception is caught and counts as a miss
Method1(dest) == IF dest \in {NoFile, LinkThrows} THEN NoFile ELSE dest

\* lines 41-49: direct path lookup
Method2(files, cleanPath) ==
    LET n == normalizePath(cleanPath)
        normalizedPath == IF StartsWith(n, Slash) THEN Substring(n, 1) ELSE n
    IN IF IsTFile(files, normalizedPath) THEN normalizedPath ELSE NoFile

\* lines 72-83: the walk over the parts of a ../ path; a ".." that cannot ascend
\* leaves the loop
RECURSIVE WalkParts(_, _, _)
WalkParts(files, parts, currentPath) ==
    IF Len(parts) = 0 THEN currentPath
    ELSE IF parts[1] = <<".", ".">>
         THEN IF HasParent(files, currentPath)
              THEN WalkParts(files, Tail(parts), ParentPath(currentPath))
              ELSE currentPath
         ELSE IF parts[1] # <<".">> /\ parts[1] # EmptyStr
              THEN WalkParts(files, Tail(parts),
                             normalizePath(currentPath \o Slash \o parts[1]))
              ELSE WalkParts(files, Tail(parts), currentPath)

\* lines 52-90: lookup relative to the folder of the source file
Method3(files, cleanPath, source) ==
    LET parentPath == ParentPath(source)
        relativePath == IF StartsWith(cleanPath, <<".", "/">>)
                        THEN Substring(cleanPath, 2) ELSE cleanPath
        fullPath == normalizePath(parentPath \o Slash \o relativePath)
        walked == WalkParts(files, Split(cleanPath, "/"), parentPath)
    IN IF IsTFile(files, fullPath) THEN fullPath
       ELSE IF StartsWith(cleanPath, <<".", ".", "/">>) /\ IsTFile(files, walked)
            THEN walked
            ELSE NoFile

\* line 172
attachmentFolderNames == <<
    <<"a","t","t","a","c","h","m","e","n","t","s">>,
    <<"a","s","s","e","t","s">>,
    <<"i","m","a","g","e","s">>,
    <<"m","e","d","i","a">>,
    <<"f","i","l","e","s">> >>

\* line 185
commonAttachmentPaths == <<
    <<"a","t","t","a","c","h","m","e","n","t","s">>,
    <<"a","s","s","e","t","s">>,
    <<"i","m","a","g","e","s">> >>

\* getAttachmentFolder: the first conventional folder beside the source file,
\* else the first one at the vault root, else null (NoFile)
getAttachmentFolder(files, source) ==
    LET parentPath == ParentPath(source)
        tfolders == VaultFolders(files)
        beside(i) == normalizePath(parentPath \o Slash \o attachmentFolderNames[i])
        hitB == {i \in DOMAIN attachmentFolderNames : beside(i) \in tfolders}
        hitC == {i \in DOMAIN commonAttachmentPaths :
                    commonAttachmentPaths[i] \in tfolders}
        least(S) == CHOOSE i \in S : \A j \in S : i <= j
    IN IF hitB # {} THEN beside(least(hitB))
       ELSE IF hitC # {} THEN commonAttachmentPaths[least(hitC)]
       ELSE NoFile

\* lines 94-101: lookup inside the attachment folder
Method4(files, cleanPath, source) ==
    LET attachmentFolder == getAttachmentFolder(files, source)
        attachmentPath == normalizePath(attachmentFolder \o Slash \o cleanPath)
    IN IF attachmentFolder # NoFile /\ IsTFile(files, attachmentPath)
       THEN attachmentPath ELSE NoFile

\* line 108
imageExtensions == <<
    <<".","p","n","g">>,
    <<".","j","p","g">>,
    <<".","j","p","e","g">>,
    <<".","g","i","f">>,
    <<".","s","v","g">>,
    <<".","w","e","b","p">>,
    <<".","b","m","p">>,
    <<".","e","x","c","a","l","i","d","r","a","w">> >>

\* the for loops of lines 115-124 and 140-146: the first extension, in list
\* order, for which a file is found
RECURSIVE FindWithExt(_, _, _, _)
FindWithExt(allFiles, fileName, exts, dir) ==
    IF Len(exts) = 0 THEN NoFile
    ELSE LET found == FindFile(allFiles, fileName \o exts[1], dir)
         IN IF found # NoFile THEN found
            ELSE FindWithExt(allFiles, fileName, Tail(exts), dir)

\* line 104: cleanPath.split('/').pop() || cleanPath
BareName(cleanPath) ==
    LET last == LastPart(Split(cleanPath, "/"))
    IN IF last = EmptyStr THEN cleanPath ELSE last

\* the name search without its vault-wide second half (lines 136-152 left out)
Method5SameDirOnly(files, rev, cleanPath, source) ==
    LET fileName == BareName(cleanPath)
        allFiles == getFiles(files, rev)
        here == ParentPath(source)
    IN IF fileName = EmptyStr THEN NoFile
       ELSE IF Includes(fileName, ".")
            THEN FindFile(allFiles, fileName, here)
            ELSE FindWithExt(allFiles, fileName, imageExtensions, here)

\* lines 104-153: search by file name, the folder of the source file first
Method5(files, rev, cleanPath, source) ==
    LET fileName == BareName(cleanPath)
        allFiles == getFiles(files, rev)
        hasExtension == Includes(fileName, ".")
        here == ParentPath(source)
        sameDirFile == IF hasExtension
                       THEN FindFile(allFiles, fileName, here)
                       ELSE FindWithExt(allFiles, fileName, imageExtensions, here)
        foundFile == IF hasExtension
                     THEN FindFile(allFiles, fileName, NoFile)
                     ELSE FindWithExt(allFiles, fileName, imageExtensions, NoFile)
    IN IF fileName = EmptyStr THEN NoFile
       ELSE IF sameDirFile # NoFile THEN sameDirFile
       ELSE foundFile

\* the five strategies of a cleaned path, in the order of the source
Strategies(files, rev, cleanPath, source, dest) == <<
    Method1(dest),
    Method2(files, cleanPath),
    Method3(files, cleanPath, source),
    Method4(files, cleanPath, source),
    Method5(files, rev, cleanPath, source) >>

\* resolveImageFile with the source-relative lookup tried before the direct one
resolveImageFileRelativeFirst(files, rev, imagePath, source, dest) ==
    LET cleanPath == CleanPath(imagePath)
    IN IF IsExternal(cleanPath) THEN NoFile
       ELSE IF Method1(dest) # NoFile THEN Method1(dest)
       ELSE IF Method3(files, cleanPath, source) # NoFile
            THEN Method3(files, cleanPath, source)
       ELSE IF Method2(files, cleanPath) # NoFile THEN Method2(files, cleanPath)
       ELSE IF Method4(files, cleanPath, source) # NoFile
            THEN Method4(files, cleanPath, source)
       ELSE Method5(files, rev, cleanPath, source)

\* resolveImageFile (lines 18-156): dest is what getFirstLinkpathDest answers
resolveImageFile(files, rev, imagePath, source, dest) ==
    LET cleanPath == CleanPath(imagePath)
    IN IF IsExternal(cleanPath) THEN NoFile
       ELSE IF Method1(dest) # NoFile THEN Method1(dest)
       ELSE IF Method2(files, cleanPath) # NoFile THEN Method2(files, cleanPath)
       ELSE IF Method3(files, cleanPath, source) # NoFile
            THEN Method3(files, cleanPath, source)
       ELSE IF Method4(files, cleanPath, source) # NoFile
            THEN Method4(files, cleanPath, source)
       ELSE Method5(files, rev, cleanPath, source)

-----------------------------------------------------------------------------
(* The remote store and WikiJSAPI.ensureAssetFolderPath *)

\* bounds: the calls one client makes, the requests that may fail
MaxRuns == 2
MaxFailures == 2

Clients == {"c1", "c2"}

\* the page paths handed to ensureAssetFolderPath
PathUniverse == {
    <<"p">>,
    <<"a", "/", "p">>,
    <<"/", "a", "/", "/", "b", "/", "p">> }

\* the root folder, and the null / undefined folder identifier (both falsy)
RootFolder == 0

InitRemote ==
    /\ folders = {}
    /\ nextId = 1
    /\ failures = 0

IdleClient == [pc |-> "idle", path |-> EmptyStr, folderParts |-> <<>>, idx |-> 0,
               currentFolderId |-> RootFolder, first |-> "none", create |-> "none",
               ret |-> RootFolder, log |-> <<>>, requests |-> 0, creates |-> 0]

InitClients ==
    /\ cl = [c \in Clients |-> IdleClient]
    /\ runs = [c \in Clients |-> <<>>]

\* no page: the null of getPageByPath and of checkIfPageExists
NoPage == 0

\* no asset: an image of the batch that was not uploaded
NoAsset == [folderId |-> RootFolder, name |-> EmptyStr]

\* no UploadResult yet
NoResult == [threw |-> FALSE, success |-> FALSE, message |-> <<>>, cause |-> "none"]

\* the modal before performUpload has run
IdleUpload == [pc |-> "idle", pathInput |-> EmptyStr, titleInput |-> EmptyStr,
               tagsInput |-> EmptyStr,
               doc |-> <<>>, images |-> <<>>,
               queried |-> NoPage, existingPage |-> NoPage, answer |-> "none",
               content |-> <<>>, targetFolderId |-> RootFolder, files |-> <<>>,
               outcomes |-> <<>>, placed |-> <<>>, result |-> NoResult,
               issued |-> <<>>, notices |-> <<>>, attempts |-> 0, yes |-> 0]

\* DEFAULT_SETTINGS (settings.ts lines 6-12): the flags and the tag list, the
\* upload behavior unset
DEFAULT_SETTINGS ==
    [defaultTags |-> <<>>, autoConvertLinks |-> TRUE,
     preserveObsidianSyntax |-> FALSE, uploadBehavior |-> "unset"]

NotCalled == [called |-> FALSE]

\* the dialog after its constructor (part_005 lines 23-33): not opened, no
\* field read yet
NotOpened == [opened |-> FALSE, form |-> <<>>, unsetReads |-> <<>>]

\* no note is open: the state of the processor's variables in the other parts
InitNoNote ==
    /\ settings = DEFAULT_SETTINGS
    /\ note = [content |-> <<>>, name |-> <<>>, folder |-> <<>>]
    /\ fields = NotCalled
    /\ finalProcessed = <<>>
    /\ dialog = NotOpened

InitModal ==
    /\ pages = {}
    /\ assets = {}
    /\ up = IdleUpload

\* what the remote answers to the folders(parentFolderId) query
RemoteFolders(parentFolderId) == {f \in folders : f.parentId = parentFolderId}

\* the most folders the other actor adds to the remote
MaxFolders == 2

\* a createFolder that accepts every slug: the remote without its uniqueness rule
RemoteAcceptsAny(parentFolderId, slug) == TRUE

\* whether the remote accepts createFolder(parentFolderId, slug): a slug is
\* unique within its parent
RemoteAcceptsFolder(parentFolderId, slug) ==
    ~\E f \in folders : f.parentId = parentFolderId /\ f.slug = slug

\* the folder the remote adds on an accepted createFolder
NewFolder(parentFolderId, slug, by) ==
    [id |-> nextId, parentId |-> parentFolderId, slug |-> slug, name |-> slug, by |-> by]

\* makeGraphQLRequest (lines 10-38): the data, or an exception on a transport
\* error, a non-2xx status or a GraphQL errors entry
makeGraphQLRequest(fails, data) == [threw |-> fails, data |-> IF fails THEN {} ELSE data]

\* getAssetFolders without its try / catch: the exception goes to the caller
getAssetFoldersUncaught(response) == [threw |-> response.threw, list |-> response.data]

\* getAssetFolders (lines 268-288): the list, and [] when the request threw
getAssetFolders(response) == [threw |-> FALSE, list |-> response.data]

\* findFolderIdByName (lines 296-300): the id of the folder of that slug or
\* name in the list, null (0) when there is none
findFolderIdByName(list, folderName) ==
    IF \E f \in list : f.slug = folderName \/ f.name = folderName
    THEN (CHOOSE f \in list : f.slug = folderName \/ f.name = folderName).id
    ELSE RootFolder

\* lines 359 and 365: path.split('/').filter(p => p.trim()).slice(0, -1)
RECURSIVE FilterNonBlank(_)
FilterNonBlank(parts) ==
    IF Len(parts) = 0 THEN <<>>
    ELSE (IF Trim(parts[1]) # EmptyStr THEN <<parts[1]>> ELSE <<>>)
             \o FilterNonBlank(Tail(parts))

PathParts(path) == FilterNonBlank(Split(path, "/"))

FolderParts(path) ==
    LET parts == PathParts(path)
    IN IF Len(parts) = 0 THEN <<>> ELSE SubSeq(parts, 1, Len(parts) - 1)

\* the record of one segment of the loop: how its requests went (first query,
\* createFolder, re-query) and the folder the loop stands in after it
Segment(c, first, create, retry, id) ==
    [slug |-> cl[c].folderParts[cl[c].idx], parent |-> cl[c].currentFolderId,
     first |-> first, create |-> create, retry |-> retry, id |-> id]

Degraded(log) == \E i \in DOMAIN log : log[i].retry \in {"miss", "error"}

\* the end of one iteration (lines 373, 403), after sent more requests: the
\* next segment, or the return
AfterSegment(c, seg, sent) ==
    LET me == cl[c]
        log == Append(me.log, seg)
    IN IF me.idx = Len(me.folderParts)
       THEN /\ cl' = [cl EXCEPT ![c] = [me EXCEPT !.pc = "returned", !.ret = seg.id,
                                                  !.currentFolderId = seg.id,
                                                  !.first = "none", !.create = "none",
                                                  !.requests = me.requests + sent,
                                                  !.creates = 0,
                                                  !.log = log]]
            /\ runs' = [runs EXCEPT ![c] = Append(@,
                          [path |-> me.path, ret |-> seg.id, degraded |-> Degraded(log)])]
       ELSE /\ cl' = [cl EXCEPT ![c] = [me EXCEPT !.pc = "find", !.idx = me.idx + 1,
                                                  !.currentFolderId = seg.id,
                                                  !.first = "none", !.create = "none",
                                                  !.requests = me.requests + sent,
                                                  !.creates = 0,
                                                  !.log = log]]
            /\ UNCHANGED runs

\* an exception leaves ensureAssetFolderPath
Escapes(c) ==
    /\ cl' = [cl EXCEPT ![c].pc = "threw", ![c].requests = @ + 1]
    /\ UNCHANGED runs

\* lines 357-370: the call, up to the first request
EnsureEntry(c, path) ==
    LET folderParts == FolderParts(path)
    IN IF Len(folderParts) = 0
       THEN /\ cl' = [cl EXCEPT ![c] = [IdleClient EXCEPT !.pc = "returned",
                                             !.path = path]]
            /\ runs' = [runs EXCEPT ![c] = Append(@,
                          [path |-> path, ret |-> RootFolder, degraded |-> FALSE])]
       ELSE /\ cl' = [cl EXCEPT ![c] = [IdleClient EXCEPT !.pc = "find",
                                             !.path = path,
                                             !.folderParts = folderParts,
                                             !.idx = 1]]
            /\ UNCHANGED runs

\* a client calls ensureAssetFolderPath(path)
CallEnsure(c, path) ==
    /\ cl[c].pc \in {"idle", "returned"}
    /\ Len(runs[c]) < MaxRuns
    /\ EnsureEntry(c, path)
    /\ UNCHANGED <<remoteVars, resolveVars, uploadVars, noteVars>>

\* the outcome of one request: answered, or failed while failures are left
RequestFails(fails) ==
    /\ fails => failures < MaxFailures
    /\ failures' = IF fails THEN failures + 1 ELSE failures

\* lines 375-381 with the hit not descended into: currentFolderId stays
FindFolderNoDescend(c) ==
    /\ cl[c].pc = "find"
    /\ \E fails \in BOOLEAN :
         /\ RequestFails(fails)
         /\ LET got == getAssetFolders(
                           makeGraphQLRequest(fails, RemoteFolders(cl[c].currentFolderId)))
                folderId == findFolderIdByName(got.list, cl[c].folderParts[cl[c].idx])
            IN IF folderId # RootFolder
               THEN AfterSegment(c, Segment(c, "hit", "none", "none", cl[c].currentFolderId), 1)
               ELSE /\ cl' = [cl EXCEPT ![c].pc = "create",
                                        ![c].requests = @ + 1,
                                        ![c].first = IF fails THEN "error" ELSE "miss"]
                    /\ UNCHANGED runs
    /\ UNCHANGED <<folders, nextId, resolveVars, uploadVars, noteVars>>

\* lines 375-381: the first query of a segment
FindFolder(c) ==
    /\ cl[c].pc = "find"
    /\ \E fails \in BOOLEAN :
         /\ RequestFails(fails)
         /\ LET got == getAssetFolders(
                           makeGraphQLRequest(fails, RemoteFolders(cl[c].currentFolderId)))
                folderId == findFolderIdByName(got.list, cl[c].folderParts[cl[c].idx])
            IN IF got.threw THEN Escapes(c)
               ELSE IF folderId # RootFolder
               THEN AfterSegment(c, Segment(c, "hit", "none", "none", folderId), 1)
               ELSE /\ cl' = [cl EXCEPT ![c].pc = "create",
                                        ![c].requests = @ + 1,
                                        ![c].first = IF fails THEN "error" ELSE "miss"]
                    /\ UNCHANGED runs
    /\ UNCHANGED <<folders, nextId, resolveVars, uploadVars, noteVars>>

\* lines 383 and 324-349: createAssetFolder up to the answer of the mutation.
\* The request fails before or after the remote acted, or the remote answers:
\* it refuses a slug its parent already has, else it adds the folder.
CreateFolder(c) ==
    /\ cl[c].pc = "create"
    /\ LET parentFolderId == cl[c].currentFolderId
           slug == cl[c].folderParts[cl[c].idx]
           accepted == RemoteAcceptsFolder(parentFolderId, slug)
       IN \E fails \in BOOLEAN, acted \in BOOLEAN :
            /\ RequestFails(fails)
            /\ ~fails => acted
            /\ IF acted /\ accepted
               THEN /\ folders' = folders \cup {NewFolder(parentFolderId, slug, c)}
                    /\ nextId' = nextId + 1
               ELSE UNCHANGED <<folders, nextId>>
            /\ LET result == makeGraphQLRequest(fails, [succeeded |-> accepted])
               IN IF ~result.threw /\ result.data.succeeded
                  THEN cl' = [cl EXCEPT ![c].pc = "createFind", ![c].create = "ok",
                                        ![c].requests = @ + 1, ![c].creates = @ + 1]
                  ELSE cl' = [cl EXCEPT ![c].pc = "retry",
                                        ![c].requests = @ + 1, ![c].creates = @ + 1,
                                        ![c].create = IF result.threw THEN "error"
                                                      ELSE "exists"]
    /\ UNCHANGED <<runs, resolveVars, uploadVars, noteVars>>

\* lines 331-336 and 385-388: the query for the id of the folder just created;
\* without an id the loop goes to the re-query
CreateFind(c) ==
    /\ cl[c].pc = "createFind"
    /\ \E fails \in BOOLEAN :
         /\ RequestFails(fails)
         /\ LET got == getAssetFolders(
                           makeGraphQLRequest(fails, RemoteFolders(cl[c].currentFolderId)))
                folderId == findFolderIdByName(got.list, cl[c].folderParts[cl[c].idx])
            IN IF got.threw THEN Escapes(c)
               ELSE IF folderId # RootFolder
               THEN AfterSegment(c, Segment(c, cl[c].first, "ok", "none", folderId), 1)
               ELSE /\ cl' = [cl EXCEPT ![c].pc = "retry", ![c].create = "noid",
                                        ![c].requests = @ + 1]
                    /\ UNCHANGED runs
    /\ UNCHANGED <<folders, nextId, resolveVars, uploadVars, noteVars>>

\* lines 390-398 without the re-query: a failed creation keeps the current folder
RetryFindSkipped(c) ==
    /\ cl[c].pc = "retry"
    /\ AfterSegment(c, Segment(c, cl[c].first, cl[c].create, "miss", cl[c].currentFolderId), 0)
    /\ UNCHANGED <<remoteVars, resolveVars, uploadVars, noteVars>>

\* lines 390-398 with a re-query that, on a miss, tries the creation again
RetryFindCreatingAgain(c) ==
    /\ cl[c].pc = "retry"
    /\ \E fails \in BOOLEAN :
         /\ RequestFails(fails)
         /\ LET got == getAssetFolders(
                           makeGraphQLRequest(fails, RemoteFolders(cl[c].currentFolderId)))
                folderId == findFolderIdByName(got.list, cl[c].folderParts[cl[c].idx])
            IN IF folderId # RootFolder
               THEN AfterSegment(c, Segment(c, cl[c].first, cl[c].create, "hit", folderId), 1)
               ELSE /\ cl' = [cl EXCEPT ![c].pc = "create", ![c].requests = @ + 1]
                    /\ UNCHANGED runs
    /\ UNCHANGED <<folders, nextId, resolveVars, uploadVars, noteVars>>

\* lines 390-398 with a second miss that aborts the call instead of going on
RetryFindAborting(c) ==
    /\ cl[c].pc = "retry"
    /\ \E fails \in BOOLEAN :
         /\ RequestFails(fails)
         /\ LET got == getAssetFolders(
                           makeGraphQLRequest(fails, RemoteFolders(cl[c].currentFolderId)))
                folderId == findFolderIdByName(got.list, cl[c].folderParts[cl[c].idx])
            IN IF folderId # RootFolder
               THEN AfterSegment(c, Segment(c, cl[c].first, cl[c].create, "hit", folderId), 1)
               ELSE Escapes(c)
    /\ UNCHANGED <<folders, nextId, resolveVars, uploadVars, noteVars>>

\* lines 390-398: the re-query after a failed creation; a second miss keeps
\* the current folder
RetryFind(c) ==
    /\ cl[c].pc = "retry"
    /\ \E fails \in BOOLEAN :
         /\ RequestFails(fails)
         /\ LET got == getAssetFolders(
                           makeGraphQLRequest(fails, RemoteFolders(cl[c].currentFolderId)))
                folderId == findFolderIdByName(got.list, cl[c].folderParts[cl[c].idx])
            IN IF got.threw THEN Escapes(c)
               ELSE IF folderId # RootFolder
               THEN AfterSegment(c, Segment(c, cl[c].first, cl[c].create, "hit", folderId), 1)
               ELSE AfterSegment(c, Segment(c, cl[c].first, cl[c].create,
                                            IF fails THEN "error" ELSE "miss",
                                            cl[c].currentFolderId), 1)
    /\ UNCHANGED <<folders, nextId, resolveVars, uploadVars, noteVars>>

InitFolder ==
    /\ InitRemote
    /\ InitClients
    /\ InitModal
    /\ vaultFiles = {}
    /\ filesRev = FALSE
    /\ sourceFile = EmptyStr
    /\ images = <<>>
    /\ imgIdx = 0
    /\ linkDest = <<>>
    /\ resolved = <<>>
    /\ imageFileMap = <<>>
    /\ InitNoNote

NextFolder ==
    \E c \in Clients :
        \/ \E path \in PathUniverse : CallEnsure(c, path)
        \/ FindFolder(c)
        \/ CreateFolder(c)
        \/ CreateFind(c)
        \/ RetryFind(c)

SpecFolder == InitFolder /\ [][NextFolder]_vars

-----------------------------------------------------------------------------
(* ImageTagProcessor.resolveImageFiles, one iteration of its loop per step *)

\* bounds of the batches and vaults explored
MaxVaultFiles == 2
MaxImages == 2

Range(seq) == {seq[i] : i \in DOMAIN seq}

\* the references a batch is drawn from, in document order
RefOrder == <<
    <<"/","x","/","a",".","p","n","g","#","h">>,
    <<"h","t","t","p",":","/","/","h","/","a",".","p","n","g">>,
    <<"b">>,
    <<"a">>,
    <<".",".","/","a",".","p","n","g">>,
    <<"y","/","b",".","j","p","g">>,
    <<" ",".","/","a",".","p","n","g","?","v">>,
    <<"a",".","p","n","g">> >>

\* the image references of a batch (the path field of an extracted image)
RefUniverse == Range(RefOrder)

\* an extracted image (extractImages, line 493): name is the last path segment
ImageOf(path) == [name |-> BareName(path), path |-> path]

\* the batches: up to MaxImages references that follow one another in RefOrder
Batch(first, n) == [i \in 1..n |-> ImageOf(RefOrder[first + i - 1])]

Batches ==
    UNION {{Batch(first, n) : n \in {m \in 1..MaxImages : first + m - 1 <= Len(RefOrder)}} :
              first \in DOMAIN RefOrder}

InitResolve ==
    /\ vaultFiles \in {F \in SUBSET Range(FileUniverse) : Cardinality(F) <= MaxVaultFiles}
    /\ filesRev \in BOOLEAN
    /\ sourceFile \in SourceUniverse
    /\ images \in Batches
    /\ imgIdx = 0
    /\ linkDest = <<>>
    /\ resolved = <<>>
    /\ imageFileMap = <<>>
    /\ InitRemote
    /\ InitClients
    /\ InitModal
    /\ InitNoNote

\* lines 205-212, with the iteration breaking off at an unresolved image
ResolveImageBreaking ==
    /\ imgIdx < Len(images)
    /\ \E dest \in {NoFile, LinkThrows} \cup vaultFiles :
         LET image == images[imgIdx + 1]
             file == resolveImageFile(vaultFiles, filesRev, image.path, sourceFile, dest)
         IN /\ imageFileMap' = IF file # NoFile
                               THEN (image.path :> file) @@ imageFileMap
                               ELSE imageFileMap
            /\ resolved' = Append(resolved, file)
            /\ linkDest' = Append(linkDest, dest)
            /\ imgIdx' = IF file # NoFile THEN imgIdx + 1 ELSE Len(images)
    /\ UNCHANGED <<vaultFiles, filesRev, sourceFile, images>>
    /\ UNCHANGED <<remoteVars, folderVars, uploadVars, noteVars>>

\* lines 205-212: one iteration of the loop of resolveImageFiles
ResolveImage ==
    /\ imgIdx < Len(images)
    /\ \E dest \in {NoFile, LinkThrows} \cup vaultFiles :
         LET image == images[imgIdx + 1]
             file == resolveImageFile(vaultFiles, filesRev, image.path, sourceFile, dest)
         IN /\ imageFileMap' = IF file # NoFile
                               THEN (image.path :> file) @@ imageFileMap
                               ELSE imageFileMap
            /\ resolved' = Append(resolved, file)
            /\ linkDest' = Append(linkDest, dest)
            /\ imgIdx' = imgIdx + 1
    /\ UNCHANGED <<vaultFiles, filesRev, sourceFile, images>>
    /\ UNCHANGED <<remoteVars, folderVars, uploadVars, noteVars>>

NextResolve == ResolveImage

SpecResolve == InitResolve /\ [][NextResolve]_vars

-----------------------------------------------------------------------------
(* MarkdownProcessor on double-bracket image embeds: extractImages and     *)
(* convertObsidianImages. An embed ![[imageName]] is given by its imageName. *)

\* String.prototype.endsWith
EndsWith(s, p) == Len(s) >= Len(p) /\ SubSeq(s, Len(s) - Len(p) + 1, Len(s)) = p

\* the position of the last ch of s, 0 when there is none
RECURSIVE LastIndexFrom(_, _, _)
LastIndexFrom(s, ch, i) ==
    IF i = 0 THEN 0 ELSE IF s[i] = ch THEN i ELSE LastIndexFrom(s, ch, i - 1)

LastIndexOf(s, ch) == LastIndexFrom(s, ch, Len(s))

\* replace(/\\/g, '/')
BackslashToSlash(s) == [i \in DOMAIN s |-> IF s[i] = "\\" THEN "/" ELSE s[i]]

\* replace(/\s+/g, '_'): every run of whitespace becomes one underscore
RECURSIVE SpacesToUnderscore(_)
SpacesToUnderscore(s) ==
    IF Len(s) = 0 THEN <<>>
    ELSE IF s[1] \in Whitespace
         THEN IF Len(s) > 1 /\ s[2] \in Whitespace
              THEN SpacesToUnderscore(Tail(s))
              ELSE <<"_">> \o SpacesToUnderscore(Tail(s))
         ELSE <<s[1]>> \o SpacesToUnderscore(Tail(s))

\* normalizeImagePath (lines 505-522)
normalizeImagePath(path) ==
    LET trimmed == BackslashToSlash(Trim(path))
        noSlash == IF StartsWith(trimmed, Slash) THEN Substring(trimmed, 1) ELSE trimmed
        noDot == IF StartsWith(noSlash, <<".", "/">>) THEN Substring(noSlash, 2)
                 ELSE noSlash
    IN Split(Split(noDot, "?")[1], "#")[1]

\* the second pattern of extractImages (line 455) on ![[imageName]]: the first
\* group runs up to the last dot, the second group takes the dot and the rest;
\* there is no match without a dot that has a character before it
EmbedMatches(imageName) == LastIndexOf(imageName, ".") >= 2

EmbedGroup1(imageName) == SubSeq(imageName, 1, LastIndexOf(imageName, ".") - 1)

\* lines 463-497 for the matches of that pattern: external targets skipped,
\* the path normalized, later duplicates dropped, name the last segment
RECURSIVE extractImagesFrom(_, _)
extractImagesFrom(doc, seen) ==
    IF Len(doc) = 0 THEN <<>>
    ELSE LET imageName == doc[1]
             path == normalizeImagePath(EmbedGroup1(imageName))
             skip == \/ ~EmbedMatches(imageName)
                     \/ IsExternal(EmbedGroup1(imageName))
                     \/ path \in seen
         IN IF skip THEN extractImagesFrom(Tail(doc), seen)
            ELSE <<[name |-> BareName(path), path |-> path]>>
                     \o extractImagesFrom(Tail(doc), seen \cup {path})

extractImages(doc) == extractImagesFrom(doc, {})

\* the extensions of the test of line 293
imageExtensionPattern == {
    <<".","p","n","g">>, <<".","j","p","g">>, <<".","j","p","e","g">>,
    <<".","g","i","f">>, <<".","s","v","g">>, <<".","w","e","b","p">>,
    <<".","b","m","p">>, <<".","i","c","o">>, <<".","t","i","f","f">>,
    <<".","t","i","f">>, <<".","a","v","i","f">>, <<".","h","e","i","c">>,
    <<".","h","e","i","f">> }

HasImageExtension(imageName) ==
    \E ext \in imageExtensionPattern : EndsWith(ToLowerCase(imageName), ext)

\* the URL with the file name as written: line 305 (toLowerCase) left out
ImageUrlAsWritten(imageName, pagePath) ==
    LET last == Trim(LastPart(Split(imageName, "/")))
        fileName == SpacesToUnderscore(IF last # EmptyStr THEN last ELSE Trim(imageName))
        cleanPath == IF StartsWith(pagePath, Slash) THEN Substring(pagePath, 1)
                     ELSE pagePath
    IN IF pagePath # EmptyStr /\ cleanPath # EmptyStr
       THEN Slash \o cleanPath \o Slash \o fileName
       ELSE Slash \o fileName

\* lines 299-320: the URL convertObsidianImages writes for ![[imageName]]
ImageUrl(imageName, pagePath) ==
    LET last == Trim(LastPart(Split(imageName, "/")))
        fileName == ToLowerCase(SpacesToUnderscore(
                        IF last # EmptyStr THEN last ELSE Trim(imageName)))
        cleanPath == IF StartsWith(pagePath, Slash) THEN Substring(pagePath, 1)
                     ELSE pagePath
    IN IF pagePath # EmptyStr /\ cleanPath # EmptyStr
       THEN Slash \o cleanPath \o Slash \o fileName
       ELSE Slash \o fileName

\* convertObsidianImages (lines 290-327) on the embeds of the document: the
\* URL written for each, none for a name without an image extension
NoUrl == EmptyStr

convertObsidianImages(doc, pagePath) ==
    [j \in DOMAIN doc |-> IF HasImageExtension(doc[j]) THEN ImageUrl(doc[j], pagePath)
                          ELSE NoUrl]

-----------------------------------------------------------------------------
(* UploadModal.performUpload, one step per awaited call *)

MaxAttempts == 2

\* the client of the modal, and the other actor on the same remote
Uploader == "c1"
Other == "c2"

\* what the user may leave in the path and title fields
PathInputs == { <<" ">>, <<"p">>, <<"a", "/", "p", " ">> }
TitleInputs == { EmptyStr, <<"T">> }

\* the embeds of the note, by imageName
DocUniverse == {
    <<>>,
    << <<"a",".","p","n","g">> >>,
    << <<"g","o","n","e",".","p","n","g">>, <<"a",".","p","n","g">>,
       <<"M","y"," ","P","i","c",".","p","n","g">> >> }

UploadVault == { <<"a",".","p","n","g">>, UploadFiles[1] }

\* the remote's name for an uploaded file: lowercased, whitespace to underscore
RemoteAssetName(fileName) == ToLowerCase(SpacesToUnderscore(fileName))

\* the slugs from the root down to a folder
RECURSIVE FolderPath(_)
FolderPath(folderId) ==
    IF folderId = RootFolder THEN <<>>
    ELSE LET f == CHOOSE g \in folders : g.id = folderId
         IN Append(FolderPath(f.parentId), f.slug)

\* the URL under which the remote serves an asset
AssetUrl(asset) ==
    IF asset.folderId = RootFolder THEN Slash \o asset.name
    ELSE Slash \o Join(FolderPath(asset.folderId), "/") \o Slash \o asset.name

\* what pages.search answers: the pages of the remote
RemotePageAt(path) == {pg \in pages : pg.path = path}

\* value || fallback for strings
OrElse(value, fallback) == IF value = "" THEN fallback ELSE value

\* the message of the Error makeGraphQLRequest throws (lines 30-35)
RequestError == "HTTP error! status"

\* createPage without its try / catch
createPageUncaught(response) ==
    IF response.threw
    THEN [threw |-> TRUE, success |-> FALSE, message |-> <<>>, cause |-> "transport"]
    ELSE IF response.data.succeeded
    THEN [threw |-> FALSE, success |-> TRUE, message |-> <<"Page created successfully">>,
          cause |-> "none"]
    ELSE [threw |-> FALSE, success |-> FALSE,
          message |-> <<OrElse(response.data.message, "Unknown error occurred")>>,
          cause |-> "refused"]

\* createPage with the responseResult of the mutation not looked at
createPageOptimistic(response) ==
    IF response.threw
    THEN [threw |-> FALSE, success |-> FALSE,
          message |-> <<"Error creating page: ", RequestError>>, cause |-> "transport"]
    ELSE [threw |-> FALSE, success |-> TRUE, message |-> <<"Page created successfully">>,
          cause |-> "none"]

\* createPage (lines 147-185): the UploadResult for the answer of the mutation
createPage(response) ==
    IF response.threw
    THEN [threw |-> FALSE, success |-> FALSE,
          message |-> <<"Error creating page: ", RequestError>>, cause |-> "transport"]
    ELSE IF response.data.succeeded
    THEN [threw |-> FALSE, success |-> TRUE, message |-> <<"Page created successfully">>,
          cause |-> "none"]
    ELSE [threw |-> FALSE, success |-> FALSE,
          message |-> <<OrElse(response.data.message, "Unknown error occurred")>>,
          cause |-> "refused"]

\* updatePage (lines 229-260): the UploadResult for the answer of the mutation
updatePage(response) ==
    IF response.threw
    THEN [threw |-> FALSE, success |-> FALSE,
          message |-> <<"Error updating page: ", RequestError>>, cause |-> "transport"]
    ELSE IF response.data.succeeded
    THEN [threw |-> FALSE, success |-> TRUE, message |-> <<"Page updated successfully">>,
          cause |-> "none"]
    ELSE [threw |-> FALSE, success |-> FALSE,
          message |-> <<OrElse(response.data.message, "Unknown error occurred")>>,
          cause |-> "refused"]

\* parseTags (part_005 lines 300-305): always an array
parseTags(tagsInput) ==
    LET parts == Split(tagsInput, ",")
    IN SelectSeq([k \in DOMAIN parts |-> Trim(parts[k])], LAMBDA tag : Len(tag) > 0)

\* an argument that was not passed
Undefined == "undefined"

\* createPage, line 161: the tags of the mutation; an array, empty or not, is
\* truthy, so the default tags stand in for a missing argument only
createPageTags(tags) ==
    FilterNonBlank(IF tags # Undefined THEN tags ELSE settings.defaultTags)

\* updatePage, line 237: the tags of the mutation
updatePageTags(tags) == IF tags # Undefined THEN tags ELSE settings.defaultTags

\* whether a message has no character
EmptyMessage(message) == \A i \in DOMAIN message : message[i] = ""

\* lines 239-250: the notice of the result, the button re-enabled, the return
Finish(u, notice) ==
    [u EXCEPT !.pc = "idle", !.attempts = u.attempts + 1,
              !.notices = Append(u.notices, notice)]

\* lines 198-208 and 111-122: processMarkdown with the final path, then
\* uploadImages up to its call of ensureAssetFolderPath when there are images
Proceed(u) ==
    LET path == Trim(u.pathInput)
        v == [u EXCEPT !.content = convertObsidianImages(u.doc, path)]
    IN IF Len(u.images) > 0
       THEN /\ up' = [v EXCEPT !.pc = "ensure"]
            /\ EnsureEntry(Uploader, path)
       ELSE /\ up' = [v EXCEPT !.pc = "mutate"]
            /\ UNCHANGED folderVars

\* lines 169-183: the click on Upload, up to the first awaited call
PerformUpload(pathInput, titleInput) ==
    /\ up.pc = "idle"
    /\ up.attempts < MaxAttempts
    /\ LET u == [IdleUpload EXCEPT !.doc = up.doc, !.images = up.images,
                                   !.tagsInput = up.tagsInput,
                                   !.attempts = up.attempts, !.yes = up.yes,
                                   !.pathInput = pathInput, !.titleInput = titleInput]
       IN up' = IF Trim(pathInput) = EmptyStr THEN Finish(u, "Path cannot be empty")
                ELSE IF Trim(titleInput) = EmptyStr
                     THEN Finish(u, "Title cannot be empty")
                     ELSE [u EXCEPT !.pc = "check"]
    /\ UNCHANGED <<pages, assets, remoteVars, folderVars, resolveVars, noteVars>>

\* checkIfPageExists (lines 253-262) over getPageByPath (lines 75-98): the
\* page of exactly that path, null when there is none or the request threw
checkIfPageExists(response) ==
    IF response.threw \/ response.data = {} THEN NoPage
    ELSE (CHOOSE pg \in response.data : TRUE).id

\* lines 185-196: the existence query and the branch on its answer
CheckIfPageExists ==
    /\ up.pc = "check"
    /\ \E fails \in BOOLEAN :
         /\ RequestFails(fails)
         /\ LET response == makeGraphQLRequest(fails, RemotePageAt(Trim(up.pathInput)))
                existingPage == checkIfPageExists(response)
                u == [up EXCEPT !.existingPage = existingPage,
                                !.queried = IF fails THEN NoPage ELSE existingPage]
            IN IF existingPage # NoPage
               THEN /\ up' = [u EXCEPT !.pc = "confirm"]
                    /\ UNCHANGED folderVars
               ELSE Proceed(u)
    /\ UNCHANGED <<pages, assets, folders, nextId, resolveVars, noteVars>>

\* lines 188-195 with the answer of the dialog not looked at
ConfirmUpdateIgnored(shouldUpdate) ==
    /\ up.pc = "confirm"
    /\ Proceed([up EXCEPT !.answer = IF shouldUpdate THEN "yes" ELSE "no",
                          !.yes = IF shouldUpdate THEN up.yes + 1 ELSE up.yes])
    /\ UNCHANGED <<pages, assets, remoteVars, resolveVars, noteVars>>

\* lines 188-195 and confirmUpdate (lines 264-298): the user answers the dialog
ConfirmUpdate(shouldUpdate) ==
    /\ up.pc = "confirm"
    /\ IF shouldUpdate
       THEN Proceed([up EXCEPT !.answer = "yes", !.yes = up.yes + 1])
       ELSE /\ up' = [up EXCEPT !.answer = "no", !.pc = "idle",
                                !.attempts = up.attempts + 1]
            /\ UNCHANGED folderVars
    /\ UNCHANGED <<pages, assets, remoteVars, resolveVars, noteVars>>

\* what getFirstLinkpathDest may answer for a link path: nothing, an
\* exception, or a file of the vault of that name
HostLinkDest(linkpath) ==
    {NoFile, LinkThrows} \cup {f \in vaultFiles : FileName(f) = BareName(CleanPath(linkpath))}

\* lines 113-125: ensureAssetFolderPath has returned (or thrown: root), and
\* resolveImageFiles maps the batch
UploadImagesResolve ==
    /\ up.pc = "ensure"
    /\ cl[Uploader].pc \in {"returned", "threw"}
    /\ \E dests \in [DOMAIN up.images -> {NoFile, LinkThrows} \cup vaultFiles] :
         /\ \A i \in DOMAIN up.images : dests[i] \in HostLinkDest(up.images[i].path)
         /\ up' = [up EXCEPT
               !.pc = "image",
               !.targetFolderId = IF cl[Uploader].pc = "threw" THEN RootFolder
                                  ELSE cl[Uploader].ret,
               !.files = [i \in DOMAIN up.images |->
                             resolveImageFile(vaultFiles, filesRev, up.images[i].path,
                                              sourceFile, dests[i])]]
    /\ UNCHANGED <<pages, assets, remoteVars, folderVars, resolveVars, noteVars>>

\* one iteration of the loop that leaves the loop whatever images are left
ImageDoneEarly(u, outcome, asset, notice) ==
    [u EXCEPT !.outcomes = Append(u.outcomes, outcome),
              !.placed = Append(u.placed, asset),
              !.notices = Append(u.notices, notice),
              !.pc = "mutate"]

\* what one iteration of the loop leaves behind
ImageDone(u, outcome, asset, notice) ==
    [u EXCEPT !.outcomes = Append(u.outcomes, outcome),
              !.placed = Append(u.placed, asset),
              !.notices = Append(u.notices, notice),
              !.pc = IF Len(u.outcomes) + 1 = Len(u.images) THEN "mutate" ELSE "image"]

\* lines 127-153 with the first failure leaving the loop and uploadImages
UploadImageAborting(outcome) ==
    /\ up.pc = "image"
    /\ LET file == up.files[Len(up.outcomes) + 1]
           asset == [folderId |-> up.targetFolderId, name |-> RemoteAssetName(FileName(file))]
       IN IF file = NoFile
          THEN /\ outcome = "ok"
               /\ up' = Finish(ImageDone(up, "notfound", NoAsset, "Image file not found"),
                               "Error uploading page")
               /\ UNCHANGED <<assets, failures>>
          ELSE /\ RequestFails(outcome # "ok")
               /\ IF outcome = "ok"
                  THEN /\ assets' = assets \cup {asset}
                       /\ up' = ImageDone(up, "ok", asset, "uploaded successfully")
                  ELSE /\ up' = Finish(ImageDone(up, outcome, NoAsset,
                                                 "Failed to upload image"),
                                       "Error uploading page")
                       /\ UNCHANGED assets
    /\ UNCHANGED <<pages, folders, nextId, folderVars, resolveVars, noteVars>>

\* lines 127-153: one iteration of the loop of uploadImages: the file of the
\* image read and handed to uploadAsset (lines 406-476), every failure caught
UploadImage(outcome) ==
    /\ up.pc = "image"
    /\ LET file == up.files[Len(up.outcomes) + 1]
           asset == [folderId |-> up.targetFolderId, name |-> RemoteAssetName(FileName(file))]
       IN IF file = NoFile
          THEN /\ outcome = "ok"
               /\ up' = ImageDone(up, "notfound", NoAsset, "Image file not found")
               /\ UNCHANGED <<assets, failures>>
          ELSE /\ RequestFails(outcome # "ok")
               /\ IF outcome = "ok"
                  THEN /\ assets' = assets \cup {asset}
                       /\ up' = ImageDone(up, "ok", asset, "uploaded successfully")
                  ELSE /\ up' = ImageDone(up, outcome, NoAsset, "Failed to upload image")
                       /\ UNCHANGED assets
    /\ UNCHANGED <<pages, folders, nextId, folderVars, resolveVars, noteVars>>

\* the notice of lines 239-246 for a result
ResultNotice(result) ==
    IF result.threw THEN "Error uploading page"
    ELSE IF result.success THEN "Successfully" ELSE "Failed to"

\* lines 210-250: updatePage for an existing page (its id is a number, the
\* isNaN return is never taken), createPage otherwise. The remote refuses an
\* update of an unknown id and a create on a path that has a page; a failing
\* request may or may not have reached it.
MutatePage ==
    /\ up.pc = "mutate"
    /\ \E fails \in BOOLEAN, acted \in BOOLEAN, message \in {"", "refused"} :
         /\ RequestFails(fails)
         /\ ~fails => acted
         /\ LET path == Trim(up.pathInput)
                update == up.existingPage # NoPage
                accepted == IF update THEN \E pg \in pages : pg.id = up.existingPage
                            ELSE RemotePageAt(path) = {}
                response == makeGraphQLRequest(fails,
                                [succeeded |-> accepted, message |-> message])
                result == IF update THEN updatePage(response) ELSE createPage(response)
                entry == [op |-> IF update THEN "update" ELSE "create",
                          pageId |-> up.existingPage,
                          queried |-> up.queried, answer |-> up.answer,
                          tags |-> IF update THEN updatePageTags(parseTags(up.tagsInput))
                                   ELSE createPageTags(parseTags(up.tagsInput))]
            IN /\ accepted => message = ""
               /\ pages' = IF ~(acted /\ accepted) THEN pages
                           ELSE IF update
                           THEN {IF pg.id = up.existingPage
                                 THEN [pg EXCEPT !.updates = pg.updates + 1] ELSE pg :
                                     pg \in pages}
                           ELSE pages \cup {[id |-> nextId, path |-> path,
                                             by |-> Uploader, updates |-> 0]}
               /\ nextId' = IF acted /\ accepted /\ ~update THEN nextId + 1 ELSE nextId
               /\ up' = Finish([up EXCEPT !.result = result,
                                          !.issued = Append(up.issued, entry)],
                               ResultNotice(result))
    /\ UNCHANGED <<assets, folders, folderVars, resolveVars, noteVars>>

\* another user creates a page; the remote keeps one page per path
OtherCreatesPage(path) ==
    /\ RemotePageAt(path) = {}
    /\ pages' = pages \cup {[id |-> nextId, path |-> path, by |-> Other, updates |-> 0]}
    /\ nextId' = nextId + 1
    /\ UNCHANGED <<assets, up, folders, failures, folderVars, resolveVars, noteVars>>

InitUpload ==
    /\ InitRemote
    /\ InitClients
    /\ pages = {}
    /\ assets = {}
    /\ \E doc \in DocUniverse :
          up = [IdleUpload EXCEPT !.doc = doc, !.images = extractImages(doc)]
    /\ vaultFiles = UploadVault
    /\ filesRev = FALSE
    /\ sourceFile = <<"n","/","n","o","t","e",".","m","d">>
    /\ images = <<>>
    /\ imgIdx = 0
    /\ linkDest = <<>>
    /\ resolved = <<>>
    /\ imageFileMap = <<>>
    /\ InitNoNote

NextUpload ==
    \/ \E pathInput \in PathInputs, titleInput \in TitleInputs :
          PerformUpload(pathInput, titleInput)
    \/ CheckIfPageExists
    \/ \E shouldUpdate \in BOOLEAN : ConfirmUpdate(shouldUpdate)
    \/ FindFolder(Uploader)
    \/ CreateFolder(Uploader)
    \/ CreateFind(Uploader)
    \/ RetryFind(Uploader)
    \/ UploadImagesResolve
    \/ \E outcome \in {"ok", "readfail", "uploadfail"} : UploadImage(outcome)
    \/ MutatePage
    \/ \E pathInput \in PathInputs :
          Trim(pathInput) # EmptyStr /\ OtherCreatesPage(Trim(pathInput))

SpecUpload == InitUpload /\ [][NextUpload]_vars

\* the upload behavior and the default tags of the settings tab (settings.ts
\* lines 90-102 and 129-140)
UploadSettingsUniverse ==
    {[DEFAULT_SETTINGS EXCEPT !.uploadBehavior = b, !.defaultTags = t] :
         b \in {"unset", "ask", "update", "create-new"},
         t \in {<<>>, << <<"d">> >>}}

\* what initializeFields has put into the tags field (part_005 line 47): the
\* tags of a note without tags, and of a note with the tag t
TagsInputs == {EmptyStr, <<"t">>}

\* a note with one embed
OneImageDoc == << <<"a",".","p","n","g">> >>

\* the modal of a note with one embedded image, under any settings
InitSettings ==
    /\ InitRemote
    /\ InitClients
    /\ pages = {}
    /\ assets = {}
    /\ \E tagsInput \in TagsInputs :
          up = [IdleUpload EXCEPT !.doc = OneImageDoc, !.tagsInput = tagsInput,
                                  !.images = extractImages(OneImageDoc)]
    /\ vaultFiles = UploadVault
    /\ filesRev = FALSE
    /\ sourceFile = <<"n","/","n","o","t","e",".","m","d">>
    /\ images = <<>>
    /\ imgIdx = 0
    /\ linkDest = <<>>
    /\ resolved = <<>>
    /\ imageFileMap = <<>>
    /\ settings \in UploadSettingsUniverse
    /\ note = [content |-> <<>>, name |-> <<>>, folder |-> <<>>]
    /\ fields = NotCalled
    /\ finalProcessed = <<>>
    /\ dialog = NotOpened

SpecSettings == InitSettings /\ [][NextUpload]_vars

-----------------------------------------------------------------------------
(* Claims about the resolver, checked under SpecResolve *)

\* the strategies as run for the i-th image of the batch
StrategiesAt(i) ==
    Strategies(vaultFiles, filesRev, CleanPath(images[i].path), sourceFile, linkDest[i])

\* the references of the batch that are vault references, not external links
Internal(i) == ~IsExternal(CleanPath(images[i].path))

\* the first strategy of st, in order, that found a file: its index, 0 if none
FirstHit(st) ==
    IF \E k \in DOMAIN st : st[k] # NoFile
    THEN CHOOSE k \in DOMAIN st : st[k] # NoFile /\ \A j \in 1..(k - 1) : st[j] = NoFile
    ELSE 0

\* C8: for a reference that is not an external link, resolveImageFile returns
\* the file of the first strategy, in the order link resolution, direct path,
\* source-relative path, attachment folder, file-name search, that finds a
\* file; what a later strategy would find is never returned instead.
C8_FirstStrategyWins ==
    \A i \in DOMAIN resolved :
        (i = Len(resolved) /\ Internal(i)) =>
            LET st == StrategiesAt(i)
                k == FirstHit(st)
            IN resolved[i] = IF k = 0 THEN NoFile ELSE st[k]

\* an earlier and a later strategy find different files, and the earlier one's
\* file was returned
C8_Witness ==
    \E i \in DOMAIN resolved :
        /\ Internal(i)
        /\ LET st == StrategiesAt(i)
               k == FirstHit(st)
           IN /\ k \in 2..4
              /\ \E m \in (k + 1)..5 : st[m] # NoFile /\ st[m] # st[k]
              /\ resolved[i] = st[k]

\* C9: when resolveImageFiles has gone through the batch, every reference of
\* the batch has been handed to resolveImageFile, and the keys of the returned
\* map are exactly the raw paths of the references it found a file for, each
\* mapped to that file; an unresolved reference is absent and the references
\* after it are still resolved.
C9_MapKeysAreResolved ==
    imgIdx = Len(images) =>
        /\ Len(resolved) = Len(images)
        /\ DOMAIN imageFileMap =
              {images[i].path : i \in {j \in DOMAIN images : resolved[j] # NoFile}}
        /\ \A i \in DOMAIN images :
              resolved[i] # NoFile => imageFileMap[images[i].path] = resolved[i]

\* a batch whose first reference resolved to nothing and whose second is mapped
C9_Witness ==
    /\ imgIdx = Len(images)
    /\ Len(images) = 2
    /\ resolved[1] = NoFile
    /\ images[1].path \notin DOMAIN imageFileMap
    /\ images[2].path \in DOMAIN imageFileMap

\* the files of the vault whose name is the bare file name of the i-th reference
SameNamed(i) ==
    {f \in vaultFiles : FileName(f) = BareName(CleanPath(images[i].path))}

\* the first four strategies find nothing for the i-th reference
OnlyByName(i) ==
    /\ Internal(i)
    /\ LET st == StrategiesAt(i) IN \A k \in 1..4 : st[k] = NoFile

\* C10 as stated: a reference found by none of the first four strategies, with
\* exactly one file of its bare file name in the vault, resolves to that file.
C10_Original ==
    \A i \in DOMAIN resolved :
        (i = Len(resolved) /\ OnlyByName(i) /\ Cardinality(SameNamed(i)) = 1)
            => resolved[i] \in SameNamed(i)

\* C10 as amended: the same when the bare file name contains a dot; for a bare
\* name without a dot only the files named bare name + a listed image
\* extension are candidates.
C10_UniqueNameFound ==
    \A i \in DOMAIN resolved :
        LET bare == BareName(CleanPath(images[i].path))
        IN (i = Len(resolved) /\ OnlyByName(i)) =>
            /\ (Includes(bare, ".") /\ Cardinality(SameNamed(i)) = 1)
                  => resolved[i] \in SameNamed(i)
            /\ (~Includes(bare, ".") /\ resolved[i] # NoFile)
                  => \E e \in DOMAIN imageExtensions :
                        FileName(resolved[i]) = bare \o imageExtensions[e]

\* a reference with an extension, found by the name search alone, in a folder
\* that is not the folder of the note
C10_Witness ==
    \E i \in DOMAIN resolved :
        /\ OnlyByName(i)
        /\ Includes(BareName(CleanPath(images[i].path)), ".")
        /\ Cardinality(SameNamed(i)) = 1
        /\ resolved[i] \in SameNamed(i)
        /\ ParentPath(resolved[i]) # ParentPath(sourceFile)

-----------------------------------------------------------------------------
(* Claims on ensureAssetFolderPath, under SpecFolder.                      *)

HasFolderSegment(path) == Len(FolderParts(path)) >= 1

\* the pairs of finished runs of one client for one path: the earlier, the later
RunPairs(c) ==
    {p \in (DOMAIN runs[c]) \X (DOMAIN runs[c]) :
        /\ p[1] < p[2]
        /\ runs[c][p[1]].path = runs[c][p[2]].path
        /\ HasFolderSegment(runs[c][p[1]].path)}

RacedSegments(c) ==
    {i \in DOMAIN cl[c].log : cl[c].log[i].first = "miss" /\ cl[c].log[i].create = "exists"}

\* the folder of another actor that holds the slug of segment i under its parent
OthersFolder(c, i) ==
    {f \in folders : /\ f.parentId = cl[c].log[i].parent
                     /\ f.slug = cl[c].log[i].slug
                     /\ f.by # c}

\* the folder the loop stood in after segment i: the parent of the next
\* segment, or the value returned
DescendedInto(c, i, id) ==
    /\ cl[c].log[i].id = id
    /\ i < Len(cl[c].log) => cl[c].log[i + 1].parent = id
    /\ (i = Len(cl[c].folderParts) /\ cl[c].pc = "returned") => cl[c].ret = id

NoEscape == \A c \in Clients : cl[c].pc # "threw"

\* C2 as stated: after a missed first query and a createFolder refused because
\* another actor created the slug in between, the second query finds that
\* folder and ensureAssetFolderPath descends into it without an exception.
C2_Original ==
    /\ NoEscape
    /\ \A c \in Clients : \A i \in RacedSegments(c) :
          /\ cl[c].log[i].retry = "hit"
          /\ \E f \in OthersFolder(c, i) : DescendedInto(c, i, f.id)

\* C2, amended: after a missed first query and a createFolder refused because
\* another actor created the slug in between, a second query that the remote
\* answers finds that folder, and ensureAssetFolderPath descends into it:
\* the other actor's folder is the parent of the next segment (or the value
\* returned), and no exception leaves ensureAssetFolderPath.
C2_RequeryFindsOthersFolder ==
    /\ NoEscape
    /\ \A c \in Clients : \A i \in RacedSegments(c) :
          /\ OthersFolder(c, i) # {}
          /\ cl[c].log[i].retry # "error" =>
                /\ cl[c].log[i].retry = "hit"
                /\ \E f \in OthersFolder(c, i) : DescendedInto(c, i, f.id)

C2_Witness ==
    \E c \in Clients : \E i \in RacedSegments(c) :
        /\ cl[c].log[i].retry = "hit"
        /\ i < Len(cl[c].log)
        /\ cl[c].pc = "returned"

-----------------------------------------------------------------------------
(* Claims on the upload, under SpecUpload.                                  *)

RECURSIVE SumUpdates(_)
SumUpdates(S) ==
    IF S = {} THEN 0
    ELSE LET pg == CHOOSE x \in S : TRUE IN pg.updates + SumUpdates(S \ {pg})

FailedImages == {i \in DOMAIN up.outcomes : up.outcomes[i] # "ok"}

\* C5: in one upload attempt a failure for one image does not stop the batch:
\* once the loop is left every image has been attempted, and the attempt ends
\* only after the page create or update has been issued.
C5_ImageFailureDoesNotStopBatch ==
    FailedImages # {} =>
        \/ up.pc = "image" /\ Len(up.outcomes) < Len(up.images)
        \/ /\ Len(up.outcomes) = Len(up.images)
           /\ up.pc = "mutate" \/ (up.pc = "idle" /\ Len(up.issued) = 1)

C5_Witness ==
    /\ up.pc = "idle"
    /\ Len(up.outcomes) = 3
    /\ up.outcomes[1] = "notfound"
    /\ up.outcomes[2] \in {"readfail", "uploadfail"}
    /\ up.outcomes[3] = "ok"
    /\ Len(up.issued) = 1

\* the notices of the attempt of one kind
NoticesOf(kind) == {i \in DOMAIN up.notices : up.notices[i] = kind}

\* C6: every failure of a remote call of an upload attempt reaches the caller
\* as a value or a message: a failed createPage or updatePage returns
\* success = false with a message that performUpload shows, a failed image
\* upload is shown per image, a failed folder or existence query yields the
\* empty answer, and no exception leaves ensureAssetFolderPath or performUpload.
C6_FailuresAreReportedAsData ==
    /\ NoEscape
    /\ ~up.result.threw
    /\ up.result.cause # "none" =>
          /\ ~up.result.success
          /\ ~EmptyMessage(up.result.message)
          /\ up.notices[Len(up.notices)] = "Failed to"
    /\ Cardinality(NoticesOf("Failed to upload image"))
          = Cardinality({i \in FailedImages : up.outcomes[i] # "notfound"})

C6_Witness ==
    /\ up.pc = "idle"
    /\ up.result.cause = "transport"
    /\ \E i \in DOMAIN cl[Uploader].log : cl[Uploader].log[i].create = "error"
    /\ up.targetFolderId = RootFolder
    /\ Len(up.issued) = 1

\* the image of the batch that embed j of the note was extracted as, 0 if none
ImageOfEmbed(j) ==
    IF ~EmbedMatches(up.doc[j]) THEN 0
    ELSE LET path == normalizeImagePath(EmbedGroup1(up.doc[j]))
         IN IF \E i \in DOMAIN up.images : up.images[i].path = path
            THEN CHOOSE i \in DOMAIN up.images : up.images[i].path = path
            ELSE 0

\* the embeds of the note whose image has been uploaded in this attempt
UploadedEmbeds ==
    {j \in DOMAIN up.doc : /\ ImageOfEmbed(j) \in DOMAIN up.placed
                           /\ up.placed[ImageOfEmbed(j)] # NoAsset}

\* C7 as stated: the URL written into the converted content for a
\* double-bracket embed is the place where the upload put the file: the folder
\* ensureAssetFolderPath(page path) returned, and the remote's name of the file.
C7_UrlDesignatesUpload ==
    \A j \in UploadedEmbeds : up.content[j] = AssetUrl(up.placed[ImageOfEmbed(j)])

\* the page a/p with the embed ![[a.png]]: the content says /a/p/a.png, the
\* file is in the folder a
C7_Witness ==
    \E j \in UploadedEmbeds :
        /\ Trim(up.pathInput) = <<"a", "/", "p">>
        /\ up.doc[j] = <<"a",".","p","n","g">>
        /\ up.content[j] = <<"/","a","/","p","/","a",".","p","n","g">>
        /\ AssetUrl(up.placed[ImageOfEmbed(j)]) = <<"/","a","/","a",".","p","n","g">>

-----------------------------------------------------------------------------
(* MarkdownProcessor on the text of a note, character by character *)

\* the first position from i on whose character is in stop, Len(s) + 1 if none
RECURSIVE RunEnd(_, _, _)
RunEnd(s, i, stop) ==
    IF i > Len(s) THEN Len(s) + 1
    ELSE IF s[i] \in stop THEN i ELSE RunEnd(s, i + 1, stop)

\* whether s has p at position i
HasAt(s, i, p) == i >= 1 /\ i + Len(p) - 1 <= Len(s) /\ SubSeq(s, i, i + Len(p) - 1) = p

\* replace(/\s+/g, ch): every run of whitespace becomes one ch
RECURSIVE ReplaceSpaces(_, _)
ReplaceSpaces(s, ch) ==
    IF Len(s) = 0 THEN <<>>
    ELSE IF s[1] \in Whitespace
         THEN IF Len(s) > 1 /\ s[2] \in Whitespace
              THEN ReplaceSpaces(Tail(s), ch)
              ELSE <<ch>> \o ReplaceSpaces(Tail(s), ch)
         ELSE <<s[1]>> \o ReplaceSpaces(Tail(s), ch)

\* no match at the position
NoMatch == [ok |-> FALSE]

\* the match of /\[\[([^\]|]+)(\|([^\]]+))?\]\]/ that starts at position i
\* (lines 279 and 292): link, the optional display text, the position after it
WikiMatch(s, i) ==
    LET a == i + 2
        b == RunEnd(s, a, {"]", "|"})
        hasPipe == b <= Len(s) /\ s[b] = "|"
        c == IF hasPipe THEN RunEnd(s, b + 1, {"]"}) ELSE b
    IN IF HasAt(s, i, <<"[","[">>)
       THEN [ok |-> /\ HasAt(s, i, <<"[","[">>)
                    /\ b > a
                    /\ hasPipe => c > b + 1
                    /\ HasAt(s, c, <<"]","]">>),
             link |-> SubSeq(s, a, b - 1),
             displayText |-> IF hasPipe THEN SubSeq(s, b + 1, c - 1) ELSE EmptyStr,
             next |-> c + 2]
       ELSE NoMatch

\* the link rule applied to image targets as well (the test of line 281 left out)
LinkReplacementAny(s, i, m) ==
    LET text == IF m.displayText # EmptyStr THEN m.displayText ELSE m.link
        url == ToLowerCase(ReplaceSpaces(m.link, "-"))
    IN <<"[">> \o text \o <<"]","(","/">> \o url \o <<")">>

\* lines 280-286: what one double-bracket link is replaced by
LinkReplacement(s, i, m) ==
    IF HasImageExtension(m.link) THEN SubSeq(s, i, m.next - 1)
    ELSE LET text == IF m.displayText # EmptyStr THEN m.displayText ELSE m.link
             url == ToLowerCase(ReplaceSpaces(m.link, "-"))
         IN <<"[">> \o text \o <<"]","(","/">> \o url \o <<")">>

\* convertObsidianLinks (lines 277-288), from position i on
RECURSIVE ConvertLinksFrom(_, _)
ConvertLinksFrom(s, i) ==
    IF i > Len(s) THEN <<>>
    ELSE LET m == WikiMatch(s, i)
         IN IF m.ok THEN LinkReplacement(s, i, m) \o ConvertLinksFrom(s, m.next)
            ELSE <<s[i]>> \o ConvertLinksFrom(s, i + 1)

convertObsidianLinks(content) == ConvertLinksFrom(content, 1)

\* lines 293-325: what one embed ![[imageName]] or ![[imageName|text]] is
\* replaced by
ImageReplacement(s, i, m, pagePath) ==
    IF ~HasImageExtension(m.link) THEN SubSeq(s, i, m.next - 1)
    ELSE LET imageUrl == ImageUrl(m.link, pagePath)
             fileName == ImageUrl(m.link, EmptyStr)
             altText == IF m.displayText # EmptyStr THEN m.displayText
                        ELSE Substring(fileName, 1)
         IN <<"!","[">> \o altText \o <<"]","(">> \o imageUrl \o <<")">>

\* convertObsidianImages (lines 290-327) on a text, from position i on
RECURSIVE ConvertImagesFrom(_, _, _)
ConvertImagesFrom(s, i, pagePath) ==
    IF i > Len(s) THEN <<>>
    ELSE LET m == WikiMatch(s, i + 1)
         IN IF s[i] = "!" /\ m.ok
            THEN ImageReplacement(s, i, m, pagePath) \o ConvertImagesFrom(s, m.next, pagePath)
            ELSE <<s[i]>> \o ConvertImagesFrom(s, i + 1, pagePath)

ConvertImagesIn(content, pagePath) == ConvertImagesFrom(content, 1, pagePath)

\* the match of /!\[([^\]]*)\]\(([^)]+)\)/ at position i (line 453)
MarkdownImageMatch(s, i) ==
    LET b == RunEnd(s, i + 2, {"]"})
        c == RunEnd(s, b + 2, {")"})
    IN IF HasAt(s, i, <<"!","[">>)
       THEN [ok |-> /\ HasAt(s, i, <<"!","[">>)
                    /\ HasAt(s, b, <<"]","(">>)
                    /\ c > b + 2
                    /\ c <= Len(s),
             path |-> SubSeq(s, b + 2, c - 1),
             next |-> c + 1]
       ELSE NoMatch

\* the last position of ch in s from lo to hi, 0 if none
RECURSIVE LastIn(_, _, _, _)
LastIn(s, ch, lo, hi) ==
    IF hi < lo THEN 0 ELSE IF s[hi] = ch THEN hi ELSE LastIn(s, ch, lo, hi - 1)

\* the match of /!\[\[([^\]|]+)(\.[^\]]*)\]\]/ at position i (line 455): the
\* first group is greedy, it ends before the last dot that has no pipe before it
EmbedMatch(s, i) ==
    LET a == i + 3
        b == RunEnd(s, a, {"]", "|"})
        c == RunEnd(s, a, {"]"})
        d == LastIn(s, ".", a + 1, b - 1)
    IN IF HasAt(s, i, <<"!","[","[">>)
       THEN [ok |-> /\ HasAt(s, i, <<"!","[","[">>)
                    /\ d # 0
                    /\ HasAt(s, c, <<"]","]">>),
             path |-> SubSeq(s, a, d - 1),
             next |-> c + 2]
       ELSE NoMatch

\* the match of /!\[\[([^\]|]+)\|([^\]]+)\]\]/ at position i (line 457)
CaptionedEmbedMatch(s, i) ==
    LET m == WikiMatch(s, i + 1)
    IN IF HasAt(s, i, <<"!","[","[">>)
       THEN [ok |-> /\ i <= Len(s)
                    /\ s[i] = "!"
                    /\ m.ok
                    /\ m.displayText # EmptyStr,
             path |-> m.link,
             next |-> m.next]
       ELSE NoMatch

\* the positions k from lo to hi where src= and a quote stand, the path after
\* them is not empty and is closed by a quote before the end of the tag
SrcPositions(s, lo, hi) ==
    {k \in lo..hi : /\ HasAt(s, k, <<"s","r","c","=">>)
                    /\ k + 4 <= hi
                    /\ s[k + 4] \in {"\"", "'"}
                    /\ RunEnd(s, k + 5, {"\"", "'"}) > k + 5
                    /\ RunEnd(s, k + 5, {"\"", "'"}) < hi}

\* the match of /<img[^>]+src=["']([^"']+)["'][^>]*>/ at position i (line 459),
\* for tags whose path has no '>': the greedy [^>]+ takes the last src=
ImgTagMatch(s, i) ==
    LET g == RunEnd(s, i + 4, {">"})
        ks == SrcPositions(s, i + 5, g)
        k == CHOOSE x \in ks : \A y \in ks : y <= x
    IN IF HasAt(s, i, <<"<","i","m","g">>)
       THEN [ok |-> /\ HasAt(s, i, <<"<","i","m","g">>)
                    /\ g <= Len(s)
                    /\ ks # {},
             path |-> IF ks = {} THEN EmptyStr
                      ELSE SubSeq(s, k + 5, RunEnd(s, k + 5, {"\"", "'"}) - 1),
             next |-> g + 1]
       ELSE NoMatch

\* the match of the k-th pattern of extractImages at position i
PatternMatch(k, s, i) ==
    CASE k = 1 -> MarkdownImageMatch(s, i)
      [] k = 2 -> EmbedMatch(s, i)
      [] k = 3 -> CaptionedEmbedMatch(s, i)
      [] k = 4 -> ImgTagMatch(s, i)

\* lines 462-473: the paths of all matches of the k-th pattern, in text order
RECURSIVE MatchedPaths(_, _, _)
MatchedPaths(k, s, i) ==
    IF i > Len(s) THEN <<>>
    ELSE LET m == PatternMatch(k, s, i)
         IN IF m.ok THEN <<m.path>> \o MatchedPaths(k, s, m.next)
            ELSE MatchedPaths(k, s, i + 1)

\* lines 476-497: external targets skipped, the path normalized, a path seen
\* before dropped, name the last segment of the path
RECURSIVE CollectImages(_, _)
CollectImages(paths, seen) ==
    IF Len(paths) = 0 THEN <<>>
    ELSE LET path == normalizeImagePath(paths[1])
         IN IF IsExternal(paths[1]) \/ path \in seen
            THEN CollectImages(Tail(paths), seen)
            ELSE <<[name |-> BareName(path), path |-> path]>>
                     \o CollectImages(Tail(paths), seen \cup {path})

\* extractImages with its images array kept from call to call instead of being
\* created at line 447
ExtractImagesAccumulating(content) ==
    (IF finalProcessed # <<>> THEN finalProcessed[Len(finalProcessed)].result.images
     ELSE IF fields.called THEN fields.images ELSE <<>>)
        \o CollectImages(MatchedPaths(1, content, 1) \o MatchedPaths(2, content, 1)
                             \o MatchedPaths(3, content, 1) \o MatchedPaths(4, content, 1), {})

\* extractImages (lines 446-503) on a text: the four patterns one after the other
ExtractImagesIn(content) ==
    CollectImages(MatchedPaths(1, content, 1) \o MatchedPaths(2, content, 1)
                      \o MatchedPaths(3, content, 1) \o MatchedPaths(4, content, 1), {})

LineTerminators == {"\n", "\r"}

Digits == {"0", "1", "2", "3", "4", "5", "6", "7", "8", "9"}

\* ^ and $ under the m flag
AtLineStart(s, i) == i = 1 \/ (i > 1 /\ i <= Len(s) + 1 /\ s[i - 1] \in LineTerminators)

AtLineEnd(s, i) == i = Len(s) + 1 \/ (i >= 1 /\ i <= Len(s) /\ s[i] \in LineTerminators)

\* the end of the run of characters outside stop that starts at i
RECURSIVE RunWhile(_, _, _)
RunWhile(s, i, keep) ==
    IF i > Len(s) THEN Len(s) + 1
    ELSE IF s[i] \in keep THEN RunWhile(s, i + 1, keep) ELSE i

\* the match of /^#\s+(.+)$/m at position i (line 268): \s+ is greedy and
\* gives characters back until a character other than a line end follows it
HeadingMatch(s, i) ==
    LET e == RunWhile(s, i + 1, Whitespace)
        ks == {k \in (i + 1)..(e - 1) : k + 1 <= Len(s) /\ s[k + 1] \notin LineTerminators}
        k == CHOOSE x \in ks : \A y \in ks : y <= x
    IN IF HasAt(s, i, <<"#">>)
       THEN [ok |-> /\ AtLineStart(s, i)
                    /\ i <= Len(s)
                    /\ s[i] = "#"
                    /\ ks # {},
             text |-> IF ks = {} THEN EmptyStr
                      ELSE SubSeq(s, k + 1, RunEnd(s, k + 1, LineTerminators) - 1)]
       ELSE NoMatch

\* replace(/\.md$/, '') (lines 274 and 374)
StripMd(fileName) ==
    IF EndsWith(fileName, <<".","m","d">>) THEN SubSeq(fileName, 1, Len(fileName) - 3)
    ELSE fileName

\* replace(/^\d{4}-\d{2}-\d{2}-/, '') (lines 274 and 380)
StripDate(name) ==
    IF /\ Len(name) >= 11
       /\ \A i \in {1, 2, 3, 4, 6, 7, 9, 10} : name[i] \in Digits
       /\ \A i \in {5, 8, 11} : name[i] = "-"
    THEN Substring(name, 11)
    ELSE name

\* extractTitle (lines 266-275)
extractTitle(content, fileName) ==
    LET hs == {i \in 1..Len(content) : HeadingMatch(content, i).ok}
    IN IF hs # {}
       THEN Trim(HeadingMatch(content, CHOOSE i \in hs : \A j \in hs : i <= j).text)
       ELSE StripDate(StripMd(fileName))

\* the character U+0060, which a TLA+ string cannot hold
Backtick == "backtick"

\* [a-zA-Z0-9_/-]
TagChars ==
    {LowerChars[i] : i \in DOMAIN LowerChars} \cup {UpperChars[i] : i \in DOMAIN UpperChars}
        \cup Digits \cup {"_", "/", "-"}

\* the match of /(^|\s)#([a-zA-Z0-9_/-]+)/ at position i (lines 331 and 430),
\* ^ being the start of the text only; lead is the first group
TagMatch(s, i) ==
    LET atStart == i = 1 /\ HasAt(s, 1, <<"#">>)
        h == IF atStart THEN 1 ELSE i + 1
        e == RunWhile(s, h + 1, TagChars)
    IN IF HasAt(s, i, <<"#">>) \/ HasAt(s, i + 1, <<"#">>)
       THEN [ok |-> /\ i <= Len(s)
                    /\ atStart \/ (s[i] \in Whitespace /\ HasAt(s, h, <<"#">>))
                    /\ e > h + 1,
             lead |-> IF atStart THEN EmptyStr ELSE <<s[i]>>,
             tag |-> SubSeq(s, h + 1, e - 1),
             next |-> e]
       ELSE NoMatch

\* convertObsidianTags (lines 329-332)
RECURSIVE ConvertTagsFrom(_, _)
ConvertTagsFrom(s, i) ==
    IF i > Len(s) THEN <<>>
    ELSE LET m == TagMatch(s, i)
         IN IF m.ok
            THEN m.lead \o <<Backtick, "#">> \o m.tag \o <<Backtick>> \o ConvertTagsFrom(s, m.next)
            ELSE <<s[i]>> \o ConvertTagsFrom(s, i + 1)

convertObsidianTags(content) == ConvertTagsFrom(content, 1)

\* \w
WordChars ==
    {LowerChars[i] : i \in DOMAIN LowerChars} \cup {UpperChars[i] : i \in DOMAIN UpperChars}
        \cup Digits \cup {"_"}

\* (?:^>.*$\n?)* at position i (line 336): the end of the lines that begin with >
RECURSIVE QuoteLinesEnd(_, _)
QuoteLinesEnd(s, i) ==
    IF AtLineStart(s, i) /\ i <= Len(s) /\ s[i] = ">"
    THEN LET e == RunEnd(s, i + 1, LineTerminators)
         IN IF e <= Len(s) /\ s[e] = "\n" THEN QuoteLinesEnd(s, e + 1) ELSE e
    ELSE i

\* the match of calloutRegex at position i (line 336)
CalloutMatch(s, i) ==
    LET a == RunWhile(s, i + 1, Whitespace)
        b == RunWhile(s, a + 2, WordChars)
        c == RunEnd(s, b + 1, {"\n"})
    IN IF HasAt(s, i, <<">">>)
       THEN [ok |-> /\ AtLineStart(s, i)
                    /\ HasAt(s, i, <<">">>)
                    /\ HasAt(s, a, <<"[","!">>)
                    /\ b > a + 2
                    /\ HasAt(s, b, <<"]">>)
                    /\ c <= Len(s),
             type |-> SubSeq(s, a + 2, b - 1),
             title |-> SubSeq(s, b + 1, c - 1),
             body |-> SubSeq(s, c + 1, QuoteLinesEnd(s, c + 1) - 1),
             next |-> QuoteLinesEnd(s, c + 1)]
       ELSE NoMatch

\* body.replace(/^>\s?/gm, '') (line 339)
RECURSIVE CleanBodyFrom(_, _)
CleanBodyFrom(body, i) ==
    IF i > Len(body) THEN <<>>
    ELSE IF AtLineStart(body, i) /\ body[i] = ">"
         THEN IF i + 1 <= Len(body) /\ body[i + 1] \in Whitespace
              THEN CleanBodyFrom(body, i + 2)
              ELSE CleanBodyFrom(body, i + 1)
         ELSE <<body[i]>> \o CleanBodyFrom(body, i + 1)

\* String.prototype.toUpperCase on one character
ToUpperChar(c) ==
    IF \E i \in DOMAIN LowerChars : LowerChars[i] = c
    THEN UpperChars[CHOOSE i \in DOMAIN LowerChars : LowerChars[i] = c]
    ELSE c

\* lines 339-342: the block quote written for one callout
CalloutReplacement(m) ==
    LET cleanBody == CleanBodyFrom(m.body, 1)
        titleText == IF Trim(m.title) # EmptyStr THEN Trim(m.title)
                     ELSE <<ToUpperChar(m.type[1])>> \o Tail(m.type)
        lines == Split(cleanBody, "\n")
    IN <<">"," ","*","*">> \o titleText \o <<"*","*","\n",">","\n">>
           \o Join([k \in DOMAIN lines |-> <<">"," ">> \o lines[k]], "\n") \o <<"\n">>

\* convertObsidianCallouts (lines 334-344)
RECURSIVE ConvertCalloutsFrom(_, _)
ConvertCalloutsFrom(s, i) ==
    IF i > Len(s) THEN <<>>
    ELSE LET m == CalloutMatch(s, i)
         IN IF m.ok THEN CalloutReplacement(m) \o ConvertCalloutsFrom(s, m.next)
            ELSE <<s[i]>> \o ConvertCalloutsFrom(s, i + 1)

convertObsidianCallouts(content) == ConvertCalloutsFrom(content, 1)

\* the match of /\[([^\]]+)\]\((?!https?:\/\/)([^)]+)\)/ at position i (line 348)
StandardLinkMatch(s, i) ==
    LET b == RunEnd(s, i + 1, {"]"})
        c == RunEnd(s, b + 2, {")"})
    IN IF HasAt(s, i, <<"[">>)
       THEN [ok |-> /\ HasAt(s, i, <<"[">>)
                    /\ b > i + 1
                    /\ HasAt(s, b, <<"]","(">>)
                    /\ ~HasAt(s, b + 2, <<"h","t","t","p",":","/","/">>)
                    /\ ~HasAt(s, b + 2, <<"h","t","t","p","s",":","/","/">>)
                    /\ c > b + 2
                    /\ c <= Len(s),
             text |-> SubSeq(s, i + 1, b - 1),
             url |-> SubSeq(s, b + 2, c - 1),
             next |-> c + 1]
       ELSE NoMatch

\* convertInternalLinks (lines 346-354)
RECURSIVE ConvertInternalFrom(_, _)
ConvertInternalFrom(s, i) ==
    IF i > Len(s) THEN <<>>
    ELSE LET m == StandardLinkMatch(s, i)
         IN IF m.ok
            THEN (IF StartsWith(m.url, Slash) THEN SubSeq(s, i, m.next - 1)
                  ELSE <<"[">> \o m.text \o <<"]","(","/">> \o m.url \o <<")">>)
                     \o ConvertInternalFrom(s, m.next)
            ELSE <<s[i]>> \o ConvertInternalFrom(s, i + 1)

convertInternalLinks(content) == ConvertInternalFrom(content, 1)

\* the first position from i on where p stands, 0 if none
RECURSIVE FindFrom(_, _, _)
FindFrom(s, p, i) ==
    IF i + Len(p) - 1 > Len(s) THEN 0
    ELSE IF HasAt(s, i, p) THEN i ELSE FindFrom(s, p, i + 1)

\* replace(/^---\n[\s\S]*?\n---\n/, '') (line 358)
RemoveFrontmatter(content) ==
    LET j == FindFrom(content, <<"\n","-","-","-","\n">>, 5)
    IN IF HasAt(content, 1, <<"-","-","-","\n">>) /\ j # 0 THEN Substring(content, j + 4)
       ELSE content

\* the match of /^>\s*\[![^\]]*\]\s*$/m at position i (line 361): the trailing
\* \s* is greedy and gives characters back until it stands at the end of a line
EmptyCalloutMatch(s, i) ==
    LET a == RunWhile(s, i + 1, Whitespace)
        b == RunEnd(s, a + 2, {"]"})
        e == RunWhile(s, b + 1, Whitespace)
        ks == {k \in (b + 1)..e : AtLineEnd(s, k)}
    IN IF HasAt(s, i, <<">">>)
       THEN [ok |-> /\ AtLineStart(s, i)
                    /\ HasAt(s, i, <<">">>)
                    /\ HasAt(s, a, <<"[","!">>)
                    /\ HasAt(s, b, <<"]">>)
                    /\ ks # {},
             next |-> IF ks = {} THEN i + 1 ELSE CHOOSE x \in ks : \A y \in ks : y <= x]
       ELSE NoMatch

RECURSIVE RemoveEmptyCalloutsFrom(_, _)
RemoveEmptyCalloutsFrom(s, i) ==
    IF i > Len(s) THEN <<>>
    ELSE LET m == EmptyCalloutMatch(s, i)
         IN IF m.ok THEN RemoveEmptyCalloutsFrom(s, m.next)
            ELSE <<s[i]>> \o RemoveEmptyCalloutsFrom(s, i + 1)

\* replace(/\n{3,}/g, '\n\n') (line 364)
RECURSIVE CollapseNewlines(_, _)
CollapseNewlines(s, i) ==
    IF i > Len(s) THEN <<>>
    ELSE LET e == RunWhile(s, i, {"\n"})
         IN IF e - i >= 3 THEN <<"\n","\n">> \o CollapseNewlines(s, e)
            ELSE <<s[i]>> \o CollapseNewlines(s, i + 1)

\* cleanupObsidianSyntax without line 364: runs of newlines are kept
cleanupKeepingNewlines(content) == RemoveEmptyCalloutsFrom(RemoveFrontmatter(content), 1)

\* cleanupObsidianSyntax (lines 356-367)
cleanupObsidianSyntax(content) ==
    CollapseNewlines(RemoveEmptyCalloutsFrom(RemoveFrontmatter(content), 1), 1)

\* processMarkdown with the images taken from the converted content instead of
\* the original one (line 238 after line 257)
processMarkdownImagesLast(st, content, fileName, pagePath) ==
    LET converted == IF ~st.preserveObsidianSyntax
                     THEN convertObsidianCallouts(convertObsidianTags(
                              ConvertImagesIn(convertObsidianLinks(content), pagePath)))
                     ELSE content
        linked == IF st.autoConvertLinks THEN convertInternalLinks(converted)
                  ELSE converted
    IN [content |-> Trim(cleanupObsidianSyntax(linked)),
        title |-> extractTitle(content, fileName),
        images |-> ExtractImagesIn(Trim(cleanupObsidianSyntax(linked)))]

\* processMarkdown (lines 231-264); st is this.settings
processMarkdown(st, content, fileName, pagePath) ==
    LET converted == IF ~st.preserveObsidianSyntax
                     THEN convertObsidianCallouts(convertObsidianTags(
                              ConvertImagesIn(convertObsidianLinks(content), pagePath)))
                     ELSE content
        linked == IF st.autoConvertLinks THEN convertInternalLinks(converted)
                  ELSE converted
    IN [content |-> Trim(cleanupObsidianSyntax(linked)),
        title |-> extractTitle(content, fileName),
        images |-> ExtractImagesIn(content)]

\* replace(/[^.../g, ''): the characters of s that are in keep
KeepOnly(s, keep) == SelectSeq(s, LAMBDA c : c \in keep)

\* replace(/^\/+|\/+$/g, '') (line 391)
RECURSIVE StripSlashes(_)
StripSlashes(s) ==
    IF Len(s) = 0 THEN s
    ELSE IF s[1] = "/" THEN StripSlashes(Tail(s))
    ELSE IF s[Len(s)] = "/" THEN StripSlashes(SubSeq(s, 1, Len(s) - 1))
    ELSE s

\* [a-z0-9\-_]
PathChars == {LowerChars[i] : i \in DOMAIN LowerChars} \cup Digits \cup {"-", "_"}

\* generatePath without line 391: the slashes around the folder path are kept
generatePathKeepingSlashes(fileName, folderPath) ==
    LET path == KeepOnly(StripDate(ReplaceSpaces(ToLowerCase(StripMd(fileName)), "-")),
                         PathChars)
        cleanFolderPath == KeepOnly(ReplaceSpaces(ToLowerCase(folderPath), "-"),
                                    PathChars \cup {"/"})
    IN IF folderPath # EmptyStr /\ folderPath # Slash /\ cleanFolderPath # EmptyStr
       THEN cleanFolderPath \o Slash \o path
       ELSE path

\* generatePath (lines 372-399); folderPath is EmptyStr when the file has no parent
generatePath(fileName, folderPath) ==
    LET path == KeepOnly(StripDate(ReplaceSpaces(ToLowerCase(StripMd(fileName)), "-")),
                         PathChars)
        cleanFolderPath == StripSlashes(KeepOnly(ReplaceSpaces(ToLowerCase(folderPath), "-"),
                                                 PathChars \cup {"/"}))
    IN IF folderPath # EmptyStr /\ folderPath # Slash /\ cleanFolderPath # EmptyStr
       THEN cleanFolderPath \o Slash \o path
       ELSE path

\* the match of /^tags:\s*\[(.*?)\]$/m at position i (line 411): the lazy group
\* ends at the first ] that closes the line
BracketTagsMatch(s, i) ==
    LET a == RunWhile(s, i + 5, Whitespace)
        e == RunEnd(s, a + 1, LineTerminators)
        ks == {k \in (a + 1)..(e - 1) : s[k] = "]" /\ k + 1 = e}
    IN IF HasAt(s, i, <<"t","a","g","s",":">>)
       THEN [ok |-> /\ AtLineStart(s, i)
                    /\ HasAt(s, i, <<"t","a","g","s",":">>)
                    /\ HasAt(s, a, <<"[">>)
                    /\ ks # {},
             text |-> SubSeq(s, a + 1, e - 2)]
       ELSE NoMatch

\* the match of /^tags:\s*(.+)$/m at position i (line 412)
PlainTagsMatch(s, i) ==
    LET e == RunWhile(s, i + 5, Whitespace)
        ks == {k \in (i + 4)..(e - 1) : k + 1 <= Len(s) /\ s[k + 1] \notin LineTerminators}
        k == CHOOSE x \in ks : \A y \in ks : y <= x
    IN IF HasAt(s, i, <<"t","a","g","s",":">>)
       THEN [ok |-> /\ AtLineStart(s, i)
                    /\ HasAt(s, i, <<"t","a","g","s",":">>)
                    /\ ks # {},
             text |-> IF ks = {} THEN EmptyStr
                      ELSE SubSeq(s, k + 1, RunEnd(s, k + 1, LineTerminators) - 1)]
       ELSE NoMatch

Quotes == {"\"", "'"}

\* tagString.match(/["']?([^,"']+)["']?/g) (line 418): the matched pieces
RECURSIVE ArrayTagsFrom(_, _)
ArrayTagsFrom(s, i) ==
    IF i > Len(s) THEN <<>>
    ELSE LET a == IF s[i] \in Quotes /\ i + 1 <= Len(s) /\ s[i + 1] \notin Quotes \cup {","}
                  THEN i + 1 ELSE i
             b == RunEnd(s, a, Quotes \cup {","})
             c == IF b <= Len(s) /\ s[b] \in Quotes THEN b + 1 ELSE b
         IN IF b > a THEN <<SubSeq(s, i, c - 1)>> \o ArrayTagsFrom(s, c)
            ELSE ArrayTagsFrom(s, i + 1)

\* lines 408-427: the tags of the front matter, in order, duplicates and all
FrontmatterTags(content) ==
    LET j == FindFrom(content, <<"\n","-","-","-">>, 5)
        yamlContent == IF HasAt(content, 1, <<"-","-","-","\n">>) /\ j # 0
                       THEN SubSeq(content, 5, j - 1) ELSE EmptyStr
        bs == {i \in 1..Len(yamlContent) : BracketTagsMatch(yamlContent, i).ok}
        ps == {i \in 1..Len(yamlContent) : PlainTagsMatch(yamlContent, i).ok}
        tagString == IF bs # {}
                     THEN BracketTagsMatch(yamlContent, CHOOSE i \in bs : \A k \in bs : i <= k).text
                     ELSE PlainTagsMatch(yamlContent, CHOOSE i \in ps : \A k \in ps : i <= k).text
        arrayTags == ArrayTagsFrom(tagString, 1)
        simple == Split(tagString, ",")
    IN IF bs = {} /\ ps = {} THEN <<>>
       ELSE IF Includes(tagString, "[")
            THEN [k \in DOMAIN arrayTags |-> Trim(KeepOnly(arrayTags[k],
                                                 {arrayTags[k][n] : n \in DOMAIN arrayTags[k]} \ Quotes))]
            ELSE [k \in DOMAIN simple |-> Trim(simple[k])]

\* lines 430-438: the inline tags not yet in tags are pushed in text order
RECURSIVE PushInlineTags(_, _, _)
PushInlineTags(s, i, tags) ==
    IF i > Len(s) THEN tags
    ELSE LET m == TagMatch(s, i)
         IN IF m.ok
            THEN PushInlineTags(s, m.next,
                     IF \E k \in DOMAIN tags : tags[k] = m.tag THEN tags
                     ELSE Append(tags, m.tag))
            ELSE PushInlineTags(s, i + 1, tags)

\* extractTags (lines 404-441)
extractTags(content) ==
    SelectSeq(PushInlineTags(content, 1, FrontmatterTags(content)),
              LAMBDA tag : Len(tag) > 0)


\* ---------------------------------------------------------------------------
\* One note in an UploadModal: initializeFields, then processMarkdown with the
\* path of the dialog at every upload attempt
\* ---------------------------------------------------------------------------

MaxCalls == 2

\* the constructs a note is put together from
Constructs == {
    <<"!","[","[","p","i","c",".","P","N","G","]","]">>,
    <<"!","[","[","d","/","M","y"," "," ","P","i","c",".","p","n","g","|","c","a","p","]","]">>,
    <<"[","[","a",".","p","n","g","]","]">>,
    <<"[","[","a",".","j","p","g","|","z","]","]">>,
    <<"!","[","[","N","o","t","e","]","]">>,
    <<"!","[","[","T","|","c","a","p","]","]">>,
    <<"[","[","N"," ","b","]","]">>,
    <<"[","[","N","|","c","]","]">>,
    <<"t","x","t">>,
    <<" ">>,
    <<"\n">>,
    <<"#","t">>,
    <<"!","[","x","]","(","b",".","p","n","g",")">>,
    <<"[","l","]","(","u",")">>,
    <<"-","-","-","\n","t","a","g","s",":"," ","[","a",","," ","b","]","\n","-","-","-","\n">>,
    <<">"," ","[","!","n","o","t","e","]"," ","T","\n",">"," ","b","\n">>,
    <<"\n","\n","\n">>,
    <<"#"," ","H","\n">>,
    <<"<","i","m","g"," ","s","r","c","=","\"","h",".","p","n","g","\"",">">> }

\* what stands before and after a construct
Before == {EmptyStr, <<"x"," ">>, <<"!">>, <<"[">>, <<"\n">>}

After == {EmptyStr, <<" ","x">>, <<"]">>, <<"\n">>}

\* one construct in its surroundings, or two constructs in a row
TextUniverse ==
    {EmptyStr} \cup {p \o c \o q : p \in Before, c \in Constructs, q \in After}
        \cup {c \o d : c \in Constructs, d \in Constructs}

\* notes for the tags: front matter in its spellings, then inline tags
TagTextUniverse ==
    {f \o b : f \in {<<"-","-","-","\n","t","a","g","s",":"," ","[","a",","," ","b","]","\n","-","-","-","\n">>, <<"-","-","-","\n","t","a","g","s",":"," ","a",","," ","a","\n","-","-","-","\n">>,
                     <<"-","-","-","\n","t","a","g","s",":"," ","[","a",","," ","b","]"," ","\n","-","-","-","\n">>, <<"-","-","-","\n","t","a","g","s",":"," ",",","\n","-","-","-","\n">>,
                     <<"-","-","-","\n","x",":"," ","1","\n","-","-","-","\n">>, EmptyStr},
              b \in {<<"#","c"," ","b","o","d","y">>, <<"x"," ","#","a"," ","#","d"," ","#","d">>, <<"x">>}}

FileNameUniverse == {<<"2","0","2","4","-","0","1","-","0","1","-","M","y"," ","N","o","t","e",".","m","d">>, <<"A"," "," ","b","_","C","!",".","m","d">>, <<"n",".","m","d">>, <<"!",".","m","d">>}

FolderUniverse == {EmptyStr, Slash, <<"F","o","l","d","e","r"," ","A">>, <<"/","x","/","Y"," ","z","/">>, <<"/","/">>}

NoteUniverse ==
    {[content |-> t, name |-> <<"n",".","m","d">>, folder |-> EmptyStr] : t \in TextUniverse \cup TagTextUniverse}
        \cup {[content |-> t, name |-> n, folder |-> f] :
                  t \in {EmptyStr, <<"#"," ","H","\n">>}, n \in FileNameUniverse, f \in FolderUniverse}

SettingsUniverse ==
    {[DEFAULT_SETTINGS EXCEPT !.preserveObsidianSyntax = p, !.autoConvertLinks = a] :
         p \in BOOLEAN, a \in BOOLEAN}

\* what the user leaves in the path field before an upload attempt
PagePathUniverse == {<<"d","o","c","s","/","g","u","i","d","e">>, <<"/","d","o","c","s","/","g","u","i","d","e"," ">>, <<"/">>, <<"a"," ","#","b">>}

InitMarkdown ==
    /\ settings \in SettingsUniverse
    /\ note \in NoteUniverse
    /\ fields = NotCalled
    /\ finalProcessed = <<>>
    /\ dialog = NotOpened
    /\ InitRemote
    /\ InitClients
    /\ InitModal
    /\ vaultFiles = {}
    /\ filesRev = FALSE
    /\ sourceFile = EmptyStr
    /\ images = <<>>
    /\ imgIdx = 0
    /\ linkDest = <<>>
    /\ resolved = <<>>
    /\ imageFileMap = <<>>

\* initializeFields (part_005 lines 35-49): the path, the title, the images of
\* the processing without a page path, and the tags
InitializeFields ==
    /\ ~fields.called
    /\ LET processed == processMarkdown(settings, note.content, note.name, EmptyStr)
       IN fields' = [called |-> TRUE,
                     content |-> note.content,
                     pathInput |-> generatePath(note.name, note.folder),
                     processed |-> processed,
                     titleInput |-> processed.title,
                     images |-> processed.images,
                     tags |-> extractTags(note.content)]
    /\ UNCHANGED <<settings, note, finalProcessed, dialog>>
    /\ UNCHANGED <<resolveVars, remoteVars, folderVars, uploadVars>>

\* performUpload, line 201: the content initializeFields has kept (line 45) is
\* processed again with the trimmed path of the dialog, which line 171 has
\* found not empty
ProcessForUpload ==
    /\ fields.called
    /\ Len(finalProcessed) < MaxCalls
    /\ \E pathInput \in PagePathUniverse :
          /\ Trim(pathInput) # EmptyStr
          /\ finalProcessed' = Append(finalProcessed,
                 [pagePath |-> Trim(pathInput),
                  result |-> processMarkdown(settings, fields.content, note.name,
                                             Trim(pathInput))])
    /\ UNCHANGED <<settings, note, fields, dialog>>
    /\ UNCHANGED <<resolveVars, remoteVars, folderVars, uploadVars>>

NextMarkdown ==
    \/ InitializeFields
    \/ ProcessForUpload

SpecMarkdown == InitMarkdown /\ [][NextMarkdown]_vars


\* ---------------------------------------------------------------------------
\* Claims on the MarkdownProcessor
\* ---------------------------------------------------------------------------

\* the calls of processMarkdown made so far with the text, the file name and
\* the flags of the modal: the one of initializeFields, without a page path,
\* and those of performUpload
ProcessCalls ==
    (IF fields.called THEN <<[pagePath |-> EmptyStr, result |-> fields.processed]>> ELSE <<>>)
        \o finalProcessed

RECURSIVE MaskImageUrls(_, _)
MaskImageUrls(s, i) ==
    IF i > Len(s) THEN <<>>
    ELSE LET m == MarkdownImageMatch(s, i)
         IN IF m.ok
            THEN SubSeq(s, i, m.next - Len(m.path) - 2) \o <<")">> \o MaskImageUrls(s, m.next)
            ELSE <<s[i]>> \o MaskImageUrls(s, i + 1)

\* C12: processMarkdown without a page path and with one return the same
\* title and the same image list, and their contents are equal outside the
\* URLs of image markup.
C12_PagePathOnlyInImageUrls ==
    fields.called =>
        \A k \in DOMAIN finalProcessed :
            /\ finalProcessed[k].result.title = fields.processed.title
            /\ finalProcessed[k].result.images = fields.processed.images
            /\ MaskImageUrls(finalProcessed[k].result.content, 1)
                   = MaskImageUrls(fields.processed.content, 1)

\* a note with an embedded image was processed without and with a page path,
\* and the two contents differ
C12_Witness ==
    /\ fields.called
    /\ fields.images # <<>>
    /\ finalProcessed # <<>>
    /\ finalProcessed[1].result.content # fields.processed.content


\* the positions of the double-bracket references of a text whose target ends
\* in an image extension
ImageRefs(content) ==
    {i \in 1..Len(content) :
         WikiMatch(content, i).ok /\ HasImageExtension(WikiMatch(content, i).link)}

\* the reference at position i is an embed: an exclamation mark precedes it
IsEmbed(content, i) == i > 1 /\ content[i - 1] = "!"

\* the standard link [label](/target) the link rule writes for a reference
AsStandardLink(m) ==
    <<"[">> \o (IF m.displayText # EmptyStr THEN m.displayText ELSE m.link)
        \o <<"]","(","/">> \o ToLowerCase(ReplaceSpaces(m.link, "-")) \o <<")">>

Occurs(p, s) == FindFrom(s, p, 1) # 0

\* how the image markup the image rule writes for a reference begins: ![alt](/
ImageMarkupStart(m) ==
    <<"!","[">> \o (IF m.displayText # EmptyStr THEN m.displayText
                    ELSE Substring(ImageUrl(m.link, EmptyStr), 1))
        \o <<"]","(","/">>

\* p stands in s as a link, that is not behind the exclamation mark of an image
OccursAsLink(p, s) ==
    \E j \in 1..Len(s) : HasAt(s, j, p) /\ ~(j > 1 /\ s[j - 1] = "!")

\* the calls of processMarkdown made with preserveObsidianSyntax off
ConvertingCalls == IF settings.preserveObsidianSyntax THEN <<>> ELSE ProcessCalls

\* C13 as stated: with preserveObsidianSyntax off every double-bracket
\* reference to an image is converted by the image rule, into image markup.
C13_Original ==
    \A k \in DOMAIN ConvertingCalls : \A i \in ImageRefs(note.content) :
        Occurs(ImageMarkupStart(WikiMatch(note.content, i)),
               ConvertingCalls[k].result.content)

\* the part of C13 that holds: with preserveObsidianSyntax off a double-bracket
\* reference to an image never becomes a standard link; written as an embed it
\* becomes image markup, written without the exclamation mark it stays as it is.
C13_ImageRefNeverALink ==
    \A k \in DOMAIN ConvertingCalls : \A i \in ImageRefs(note.content) :
        LET m == WikiMatch(note.content, i)
            out == ConvertingCalls[k].result.content
        IN /\ ~OccursAsLink(AsStandardLink(m), out)
           /\ IF IsEmbed(note.content, i)
              THEN Occurs(ImageMarkupStart(m), out)
              ELSE Occurs(SubSeq(note.content, i, m.next - 1), out)

\* a note with a reference to an image that is not an embed, and one with a
\* pipe label, have been processed with a page path
C13_Witness ==
    /\ ~settings.preserveObsidianSyntax
    /\ finalProcessed # <<>>
    /\ \E i \in ImageRefs(note.content) :
          /\ ~IsEmbed(note.content, i)
          /\ WikiMatch(note.content, i).displayText # EmptyStr


\* the positions of the double-bracket references of a text whose target does
\* not end in an image extension
NonImageRefs(content) ==
    {i \in 1..Len(content) :
         WikiMatch(content, i).ok /\ ~HasImageExtension(WikiMatch(content, i).link)}

\* C14: a double-bracket reference whose target does not end in an image
\* extension is never treated as an image, embed or not: no call of
\* processMarkdown rewrites it into image markup or lists its target among
\* the images.
C14_NonImageRefNeverAnImage ==
    \A k \in DOMAIN ProcessCalls : \A i \in NonImageRefs(note.content) :
        LET m == WikiMatch(note.content, i)
        IN /\ ~settings.preserveObsidianSyntax
                  => ~Occurs(<<"!">> \o AsStandardLink(m), ProcessCalls[k].result.content)
           /\ \A n \in DOMAIN ProcessCalls[k].result.images :
                  ProcessCalls[k].result.images[n].path # normalizeImagePath(m.link)

\* a note with an embed of a target that is no image has been processed
C14_Witness ==
    /\ ~settings.preserveObsidianSyntax
    /\ finalProcessed # <<>>
    /\ \E i \in NonImageRefs(note.content) : IsEmbed(note.content, i)


\* the file name the claim gives an embedded image: the last segment of the
\* target, runs of whitespace replaced by an underscore, in lower case
ClaimedFileName(target) == ToLowerCase(ReplaceSpaces(LastPart(Split(target, "/")), "_"))

StripLeadingSlash(p) == IF StartsWith(p, Slash) THEN Substring(p, 1) ELSE p

\* the image markup ![alt](url) for a reference, alt the label or the file name
ImageMarkup(m, url) ==
    <<"!","[">> \o (IF m.displayText # EmptyStr THEN m.displayText
                    ELSE ClaimedFileName(m.link))
        \o <<"]","(">> \o url \o <<")">>

\* the positions of the embeds of a text whose target ends in an image extension
ImageEmbeds(content) == {i \in ImageRefs(content) : IsEmbed(content, i)}

Plain(content) ==
    \A i \in 1..Len(content) :
        /\ ~HasAt(content, i, <<"[","[">>)
        /\ ~TagMatch(content, i).ok
        /\ ~(AtLineStart(content, i) /\ HasAt(content, i, <<">">>))
        /\ ~StandardLinkMatch(content, i).ok

\* C16 as stated: for a text without constructs processMarkdown returns the
\* text with a leading front matter removed and every run of three or more
\* newlines collapsed to two, and nothing else changed.
C16_Original ==
    Plain(note.content) =>
        \A k \in DOMAIN ProcessCalls :
            ProcessCalls[k].result.content
                = CollapseNewlines(RemoveFrontmatter(note.content), 1)

\* C16, amended: ... and the whitespace at both ends removed.
C16_PlainTextCleanedAndTrimmed ==
    Plain(note.content) =>
        \A k \in DOMAIN ProcessCalls :
            ProcessCalls[k].result.content
                = Trim(CollapseNewlines(RemoveFrontmatter(note.content), 1))

\* a text without constructs and with a run of three newlines inside has been
\* processed with a page path
C16_Witness ==
    /\ Plain(note.content)
    /\ finalProcessed # <<>>
    /\ Occurs(<<"\n","\n","\n">>, Trim(note.content))
    /\ finalProcessed[1].result.content # EmptyStr


\* C17: extractTags returns a list without duplicates and without empty
\* entries, the tags of the front matter first, in their written order, then
\* the inline tags that were not yet present.
C17_TagsAreAnOrderedSet ==
    fields.called =>
        LET front == SelectSeq(FrontmatterTags(note.content), LAMBDA t : t # EmptyStr)
        IN /\ \A i, j \in DOMAIN fields.tags : i # j => fields.tags[i] # fields.tags[j]
           /\ \A i \in DOMAIN fields.tags : fields.tags[i] # EmptyStr
           /\ Len(front) <= Len(fields.tags)
           /\ \A i \in DOMAIN front : fields.tags[i] = front[i]

\* the tags of the note with front matter tags: [a, b] and body #c body have
\* been extracted: a, b, c
C17_Witness ==
    /\ fields.called
    /\ note.content = <<"-","-","-","\n","t","a","g","s",":"," ","[","a",","," ","b","]","\n",
                        "-","-","-","\n","#","c"," ","b","o","d","y">>
    /\ fields.tags = << <<"a">>, <<"b">>, <<"c">> >>

\* the file part and the folder part of the claim
ClaimedFilePart(fileName) ==
    KeepOnly(StripDate(ReplaceSpaces(ToLowerCase(StripMd(fileName)), "-")), PathChars)

ClaimedFolderPart(folderPath) ==
    StripSlashes(KeepOnly(ReplaceSpaces(ToLowerCase(folderPath), "-"), PathChars \cup {"/"}))

\* C18: generatePath is the file part, prefixed by the folder part and a slash
\* when the folder path is given, is not the root and is not empty after
\* cleaning; no result starts with a slash.
C18_GeneratedPath ==
    fields.called =>
        /\ fields.pathInput
               = IF /\ note.folder \notin {EmptyStr, Slash}
                    /\ ClaimedFolderPart(note.folder) # EmptyStr
                 THEN ClaimedFolderPart(note.folder) \o Slash \o ClaimedFilePart(note.name)
                 ELSE ClaimedFilePart(note.name)
        /\ ~StartsWith(fields.pathInput, Slash)

\* generatePath("2024-01-01-My Note.md", "Folder A") has given folder-a/my-note
C18_Witness ==
    /\ fields.called
    /\ note.name = <<"2","0","2","4","-","0","1","-","0","1","-","M","y"," ","N","o","t","e",
                     ".","m","d">>
    /\ note.folder = <<"F","o","l","d","e","r"," ","A">>
    /\ fields.pathInput = <<"f","o","l","d","e","r","-","a","/","m","y","-","n","o","t","e">>

\* ---------------------------------------------------------------------------
\* Claims on the settings read by the upload dialog
\* ---------------------------------------------------------------------------

\* the mutations the upload dialog has issued
Issued == {up.issued[k] : k \in DOMAIN up.issued}

\* C19: the uploadBehavior setting decides what an upload does when a page
\* already exists at the target path: with "update" the user is never asked,
\* with "create-new" the existing page is never updated, and with "ask" or
\* no setting an update is issued only after the user has answered yes.
C19_UploadBehaviorDecides ==
    /\ settings.uploadBehavior = "update" => up.pc # "confirm"
    /\ settings.uploadBehavior = "create-new" =>
           \A e \in Issued : e.op # "update"
    /\ settings.uploadBehavior \in {"ask", "unset"} =>
           \A e \in Issued : e.op = "update" => e.answer = "yes"

\* an upload under the setting "update" has found a page at the target path
C19_Witness ==
    /\ settings.uploadBehavior = "update"
    /\ up.queried # NoPage
    /\ up.pc \in {"confirm", "mutate"}

\* C20: the tag list sent with createPage or updatePage by the upload dialog
\* contains each default tag configured in the settings.
C20_DefaultTagsAreSent ==
    \A e \in Issued :
        \A k \in DOMAIN settings.defaultTags :
            \E j \in DOMAIN e.tags : e.tags[j] = settings.defaultTags[k]

\* the dialog has issued a mutation while a default tag is configured
C20_Witness ==
    /\ settings.defaultTags # <<>>
    /\ Issued # {}

\* ---------------------------------------------------------------------------
\* The processor with preserveObsidianSyntax on
\* ---------------------------------------------------------------------------

\* the Obsidian constructs the flag is to preserve: links, embeds, a tag, and
\* callout blocks with and without a title
PreservedConstructs == {
    <<"[","[","N"," ","b","]","]">>, <<"[","[","N","|","c","]","]">>, <<"!","[","[","p","i","c",".","P","N","G","]","]">>, <<"!","[","[","N","o","t","e","]","]">>, <<"#","t">>,
    <<">"," ","[","!","n","o","t","e","]"," ","T","\n",">"," ","b">>, <<">"," ","[","!","n","o","t","e","]","\n",">"," ","b">>, <<">"," ","[","!","t","i","p","]">> }

PreserveBefore == {EmptyStr, <<"x"," ">>, <<"-","-","-","\n","k",":"," ","v","\n","-","-","-","\n">>, <<"x","\n","\n","\n">>}

PreserveAfter == {EmptyStr, <<" ","x">>, <<"\n">>, <<"\n","\n","\n","[","l","]","(","u",")">>}

\* one construct in its surroundings, or inside the front matter
PreserveTextUniverse ==
    {p \o c \o q : p \in PreserveBefore, c \in PreservedConstructs, q \in PreserveAfter}
        \cup {<<"-","-","-","\n","k",":"," ">> \o c \o <<"\n","-","-","-","\n","x">> : c \in PreservedConstructs}

\* a note under settings with preserveObsidianSyntax on
InitPreserve ==
    /\ settings \in {st \in SettingsUniverse : st.preserveObsidianSyntax}
    /\ note \in {[content |-> t, name |-> <<"n",".","m","d">>, folder |-> EmptyStr] :
                     t \in PreserveTextUniverse}
    /\ fields = NotCalled
    /\ finalProcessed = <<>>
    /\ dialog = NotOpened
    /\ InitRemote
    /\ InitClients
    /\ InitModal
    /\ vaultFiles = {}
    /\ filesRev = FALSE
    /\ sourceFile = EmptyStr
    /\ images = <<>>
    /\ imgIdx = 0
    /\ linkDest = <<>>
    /\ resolved = <<>>
    /\ imageFileMap = <<>>

SpecPreserve == InitPreserve /\ [][NextMarkdown]_vars

\* the texts of the constructs of a text: each wiki link, each embed with its
\* exclamation mark, each inline tag from its hash on, and each callout block
\* up to the end of its last line
ConstructTexts(content) ==
    {SubSeq(content, IF IsEmbed(content, i) THEN i - 1 ELSE i, WikiMatch(content, i).next - 1) :
         i \in {j \in 1..Len(content) : WikiMatch(content, j).ok}}
    \cup {<<"#">> \o TagMatch(content, i).tag :
              i \in {j \in 1..Len(content) : TagMatch(content, j).ok}}
    \cup {TrimEnd(SubSeq(content, i, CalloutMatch(content, i).next - 1)) :
              i \in {j \in 1..Len(content) : CalloutMatch(content, j).ok}}

\* C21: with preserveObsidianSyntax on, every wiki link, image embed, inline
\* hash tag and callout block of the input stands unchanged in the content
\* processMarkdown returns.
C21_PreserveLeavesConstructs ==
    settings.preserveObsidianSyntax =>
        \A k \in DOMAIN ProcessCalls : \A c \in ConstructTexts(note.content) :
            Occurs(c, ProcessCalls[k].result.content)

\* a note whose callout block has no title has been processed with the flag on
C21_Witness ==
    /\ settings.preserveObsidianSyntax
    /\ note.content = <<">"," ","[","!","n","o","t","e","]","\n",">"," ","b">>
    /\ \E k \in DOMAIN finalProcessed :
          finalProcessed[k].result.content = <<">"," ","b">>

\* ---------------------------------------------------------------------------
\* One client materializing folders while another actor adds folders
\* ---------------------------------------------------------------------------

\* the slugs of the folder segments of the paths
FolderSlugs == {<<"a">>, <<"b">>}

\* another actor adds a folder to the remote, under the root or under a folder
OtherCreatesFolder(parentFolderId, slug) ==
    /\ Cardinality(folders) < MaxFolders
    /\ parentFolderId = RootFolder \/ \E f \in folders : f.id = parentFolderId
    /\ RemoteAcceptsFolder(parentFolderId, slug)
    /\ folders' = folders \cup {NewFolder(parentFolderId, slug, Other)}
    /\ nextId' = nextId + 1
    /\ UNCHANGED <<failures, folderVars, resolveVars, uploadVars, noteVars>>

NextEnsure ==
    \/ \E path \in PathUniverse : CallEnsure(Uploader, path)
    \/ FindFolder(Uploader)
    \/ CreateFolder(Uploader)
    \/ CreateFind(Uploader)
    \/ RetryFind(Uploader)
    \/ \E parentFolderId \in {RootFolder} \cup {f.id : f \in folders}, slug \in FolderSlugs :
          OtherCreatesFolder(parentFolderId, slug)

SpecEnsure == InitFolder /\ [][NextEnsure]_vars

\* each request of the client is eventually answered, or fails
FairEnsure ==
    /\ WF_vars(FindFolder(Uploader))
    /\ WF_vars(CreateFolder(Uploader))
    /\ WF_vars(CreateFind(Uploader))
    /\ WF_vars(RetryFind(Uploader))

SpecEnsureFair == SpecEnsure /\ FairEnsure

\* ---------------------------------------------------------------------------
\* Claims on the degraded fallback and the cost of ensureAssetFolderPath
\* ---------------------------------------------------------------------------

\* the segment of the log whose creation and re-query both failed
FailedSegment(seg) == seg.retry \in {"miss", "error"}

\* C22: when the createFolder of a segment fails and the re-query finds
\* nothing, ensureAssetFolderPath keeps the current folder identifier, goes on
\* to the remaining segments with it as their parent, and returns 0 or the
\* identifier of a folder of the remote store; it does not abort.
C22_FailedSegmentKeepsFolder ==
    \A c \in Clients :
        LET log == cl[c].log
        IN /\ cl[c].pc # "threw"
           /\ \A i \in DOMAIN log :
                 FailedSegment(log[i]) =>
                     /\ log[i].id = log[i].parent
                     /\ i < Len(log) => log[i + 1].parent = log[i].id
                     /\ i < Len(cl[c].folderParts) =>
                            \/ Len(log) > i
                            \/ /\ cl[c].idx = i + 1
                               /\ cl[c].currentFolderId = log[i].id
                               /\ cl[c].pc \in {"find", "create", "createFind", "retry"}
           /\ cl[c].pc = "returned" =>
                 /\ Len(log) = Len(cl[c].folderParts)
                 /\ cl[c].ret = RootFolder \/ \E f \in folders : f.id = cl[c].ret

\* a call has returned the folder of a later segment after the creation and
\* the re-query of an earlier segment had both failed
C22_Witness ==
    \E c \in Clients :
        /\ cl[c].pc = "returned"
        /\ \E i \in DOMAIN cl[c].log :
              /\ i < Len(cl[c].log)
              /\ FailedSegment(cl[c].log[i])
              /\ cl[c].log[Len(cl[c].log)].parent = cl[c].log[i].parent
              /\ cl[c].ret # RootFolder

\* the client is inside the loop of ensureAssetFolderPath
InLoop(c) == cl[c].pc \in {"find", "create", "createFind", "retry"}

\* C30: ensureAssetFolderPath always terminates and returns a number, whatever
\* the remote answers: no exception leaves it, for a path with n folder
\* segments it issues at most 4n remote requests, at most 4 for each segment
\* it has started, and a path without a folder segment returns 0 with no
\* remote request.
C30_EnsureTerminatesWithin4n ==
    /\ [](\A c \in Clients :
             /\ cl[c].pc # "threw"
             /\ InLoop(c) => cl[c].requests <= 4 * cl[c].idx
             /\ cl[c].pc = "returned" =>
                    /\ cl[c].ret \in Nat
                    /\ cl[c].requests <= 4 * Len(FolderParts(cl[c].path))
                    /\ FolderParts(cl[c].path) = <<>> =>
                           cl[c].ret = RootFolder /\ cl[c].requests = 0)
    /\ \A c \in {Uploader} : InLoop(c) ~> cl[c].pc = "returned"

\* a call for a path with one folder segment has returned after four requests
C30_Witness ==
    /\ cl[Uploader].pc = "returned"
    /\ Len(FolderParts(cl[Uploader].path)) = 1
    /\ cl[Uploader].requests = 4

\* ---------------------------------------------------------------------------
\* The life of the dialog: constructor, onOpen, the file read, edits, uploads
\* ---------------------------------------------------------------------------

\* the texts the note has in the vault while the dialog is open
EditUniverse == { <<"x">>, <<"!","[","[","a",".","p","n","g","]","]"," ","y">>, <<"#"," ","H","\n","!","[","[","b",".","p","n","g","]","]">> }

\* the form fields onOpen hands to setValue (part_005 lines 67, 75, 83, 91)
FormFields == <<"pathInput", "titleInput", "descriptionInput", "tagsInput">>

\* the value of a field of the modal, Undefined before initializeFields set it
FieldValue(name) ==
    IF ~fields.called THEN Undefined
    ELSE IF name = "pathInput" THEN fields.pathInput
    ELSE IF name = "titleInput" THEN fields.titleInput
    ELSE IF name = "tagsInput" THEN Join(fields.tags, <<",", " ">>)
    ELSE EmptyStr

\* the names among a sequence of fields whose value is still unset
UnsetAmong(names) == SelectSeq(names, LAMBDA name : FieldValue(name) = Undefined)

\* uploadFile (part_000 lines 124-125) has made the modal and opens it: onOpen
\* (part_005 lines 51-109) renders the form from the fields as they are
OnOpen ==
    /\ ~dialog.opened
    /\ dialog' = [opened |-> TRUE,
                  form |-> [k \in DOMAIN FormFields |-> FieldValue(FormFields[k])],
                  unsetReads |-> dialog.unsetReads \o UnsetAmong(FormFields)]
    /\ UNCHANGED <<settings, note, fields, finalProcessed>>
    /\ UNCHANGED <<resolveVars, remoteVars, folderVars, uploadVars>>

\* a click on Upload before initializeFields has resumed: performUpload reads
\* this.pathInput.trim() (line 171) of a field that is unset, and throws
PerformUploadUnset ==
    /\ dialog.opened
    /\ ~fields.called
    /\ Len(dialog.unsetReads) < Len(FormFields) + MaxCalls
    /\ dialog' = [dialog EXCEPT !.unsetReads = Append(@, "pathInput")]
    /\ UNCHANGED <<settings, note, fields, finalProcessed>>
    /\ UNCHANGED <<resolveVars, remoteVars, folderVars, uploadVars>>

\* the user edits the note while the dialog is open
EditNote(content) ==
    /\ dialog.opened
    /\ content # note.content
    /\ note' = [note EXCEPT !.content = content]
    /\ UNCHANGED <<settings, fields, finalProcessed, dialog>>
    /\ UNCHANGED <<resolveVars, remoteVars, folderVars, uploadVars>>

\* the modal as uploadFile has made it: the constructor has started
\* initializeFields, which waits for the file read (line 36)
InitDialog ==
    /\ settings = DEFAULT_SETTINGS
    /\ note \in {[content |-> t, name |-> <<"n",".","m","d">>, folder |-> EmptyStr] :
                     t \in EditUniverse}
    /\ fields = NotCalled
    /\ finalProcessed = <<>>
    /\ dialog = NotOpened
    /\ InitRemote
    /\ InitClients
    /\ InitModal
    /\ vaultFiles = {}
    /\ filesRev = FALSE
    /\ sourceFile = EmptyStr
    /\ images = <<>>
    /\ imgIdx = 0
    /\ linkDest = <<>>
    /\ resolved = <<>>
    /\ imageFileMap = <<>>

\* open() follows the constructor in the same turn (part_000 lines 124-125), so
\* the read of initializeFields resolves after onOpen has run
NextDialog ==
    \/ OnOpen
    \/ dialog.opened /\ InitializeFields
    \/ PerformUploadUnset
    \/ dialog.opened /\ ProcessForUpload
    \/ \E content \in EditUniverse : EditNote(content)

SpecDialog == InitDialog /\ [][NextDialog]_vars

\* ---------------------------------------------------------------------------
\* Claims on the dialog
\* ---------------------------------------------------------------------------

\* C25: each upload attempt reads the text of the note anew: the content and
\* the image list an attempt works with are those of the note as it is in
\* the vault at the time of the attempt.
C25_AttemptReadsNoteAnew ==
    [][Len(finalProcessed') > Len(finalProcessed) =>
           LET e == finalProcessed'[Len(finalProcessed')]
               fresh == processMarkdown(settings, note.content, note.name, e.pagePath)
           IN /\ e.result = fresh
              /\ fields.images = fresh.images]_vars

\* an attempt has processed the note after the note was edited
C25_Witness ==
    /\ fields.called
    /\ fields.content # note.content
    /\ finalProcessed # <<>>

\* C26: no field of the dialog is read while it is still unset, neither by
\* onOpen rendering the form nor by performUpload.
C26_FieldsSetBeforeUse == dialog.unsetReads = <<>>

\* onOpen has rendered the form, and Upload was clicked, before
\* initializeFields had set the fields
C26_Witness ==
    /\ dialog.opened
    /\ dialog.form[1] = Undefined
    /\ \E k \in DOMAIN dialog.unsetReads : k > Len(FormFields)

\* ---------------------------------------------------------------------------
\* Upload attempts of one dialog, with the confirmation dialog closable
\* ---------------------------------------------------------------------------

\* the notes of the dialog: two embeds, and one embed with a caption
AttemptTexts == { <<"!","[","[","a",".","p","n","g","]","]"," ","!","[","[","M","y"," ","P","i","c",".","p","n","g","]","]">>, <<"!","[","[","a",".","p","n","g","|","c","]","]">> }

\* the targets of the embeds of a text, in order
EmbedTargets(text) ==
    LET pos == SelectSeq([i \in 1..Len(text) |-> i],
                         LAMBDA i : WikiMatch(text, i).ok /\ IsEmbed(text, i))
    IN [k \in DOMAIN pos |-> WikiMatch(text, pos[k]).link]

\* confirmUpdate (part_005 lines 264-298) resolves its promise only in the
\* click handlers of its two buttons: closed in any other way, the dialog
\* leaves the promise pending and performUpload waits at line 190 for good
ConfirmDismissed ==
    /\ up.pc = "confirm"
    /\ up' = [up EXCEPT !.pc = "blocked"]
    /\ UNCHANGED <<pages, assets, remoteVars, folderVars, resolveVars, noteVars>>

\* the modal after initializeFields: the images are those of processMarkdown
\* for the text of the note (part_005 lines 42-46)
InitAttempt ==
    /\ InitRemote
    /\ InitClients
    /\ pages = {}
    /\ assets = {}
    /\ \E text \in AttemptTexts :
          up = [IdleUpload EXCEPT !.doc = EmbedTargets(text),
                                  !.images = ExtractImagesIn(text)]
    /\ vaultFiles = UploadVault
    /\ filesRev = FALSE
    /\ sourceFile = <<"n","/","n","o","t","e",".","m","d">>
    /\ images = <<>>
    /\ imgIdx = 0
    /\ linkDest = <<>>
    /\ resolved = <<>>
    /\ imageFileMap = <<>>
    /\ InitNoNote

NextAttempt ==
    \/ NextUpload
    \/ ConfirmDismissed

SpecAttempt == InitAttempt /\ [][NextAttempt]_vars

\* ---------------------------------------------------------------------------
\* Claims on the order and the number of the remote calls of an attempt
\* ---------------------------------------------------------------------------

\* ensureAssetFolderPath of the attempt has returned
FoldersDone == cl[Uploader].pc \in {"returned", "threw"}

\* C23: within one upload attempt the images are attempted one at a time and
\* in order, the folder materialization has completed before the first
\* upload, and the page create or update is issued only after every image
\* has been attempted.
C23_SequentialUploads ==
    /\ [](/\ up.pc = "ensure" => up.outcomes = <<>>
          /\ up.pc = "image" => FoldersDone /\ Len(up.outcomes) < Len(up.images)
          /\ up.outcomes # <<>> => FoldersDone
          /\ Len(up.outcomes) = Len(up.placed)
          /\ up.pc = "mutate" \/ up.issued # <<>> => Len(up.outcomes) = Len(up.images))
    /\ [][/\ up'.outcomes # up.outcomes /\ up'.outcomes # <<>> =>
                /\ up.pc = "image"
                /\ up'.outcomes = Append(up.outcomes, up'.outcomes[Len(up'.outcomes)])
          /\ up'.issued # up.issued /\ up'.issued # <<>> =>
                up'.outcomes = up.outcomes /\ assets' = assets]_vars

\* an attempt for a path with a folder has attempted two images and then
\* issued the page mutation
C23_Witness ==
    /\ up.pc = "idle"
    /\ cl[Uploader].log # <<>>
    /\ Len(up.outcomes) = 2
    /\ up.outcomes[1] = "ok"
    /\ Len(up.issued) = 1

\* C24: no remote call of an attempt is repeated: each image file is uploaded
\* at most once, at most one page mutation is issued, and
\* ensureAssetFolderPath issues at most one createFolder for a segment.
C24_NoCallRepeated ==
    /\ Len(up.issued) <= 1
    /\ \A c \in Clients : cl[c].creates <= 1
    /\ Len(up.outcomes) <= Len(up.images)
    /\ \A i, j \in DOMAIN up.outcomes :
          i # j /\ up.outcomes[i] = "ok" /\ up.outcomes[j] = "ok" =>
              up.files[i] # up.files[j]

\* the attempt for the note with one captioned embed has uploaded an image
\* for each entry of its image list
C24_Witness ==
    /\ Len(up.doc) = 1
    /\ Len(up.outcomes) = 2
    /\ up.outcomes[1] = "ok"
    /\ up.outcomes[2] = "ok"

\* the page another actor made stands at the path of the attempt, which
\* had found none and is about to create it
CreateRaced ==
    /\ up.pc = "mutate"
    /\ up.existingPage = NoPage
    /\ \E pg \in RemotePageAt(Trim(up.pathInput)) : pg.by = Other

\* C27: when another actor has created a page at the target path after the
\* existence query found none and before createPage is issued, the attempt
\* ends with a reported failure that carries the remote's message (its
\* fallback text when the remote sent none): no exception escapes, no
\* updatePage is issued and the pages of the remote stay as they are.
C27_LostRaceIsReported ==
    [][CreateRaced /\ up'.pc # "mutate" =>
           /\ up'.pc = "idle"
           /\ pages' = pages
           /\ ~up'.result.threw
           /\ ~up'.result.success
           /\ up'.result.cause = "refused" =>
                  up'.result.message \in {<<"refused">>, <<"Unknown error occurred">>}
           /\ up'.result.cause = "transport" =>
                  up'.result.message = <<"Error creating page: ", RequestError>>
           /\ up'.issued = <<[up'.issued[1] EXCEPT !.op = "create"]>>
           /\ up'.notices[Len(up'.notices)] = "Failed to"]_vars

\* an attempt that had found no page has ended refused, the page of the
\* other actor at its path
C27_Witness ==
    /\ up.pc = "idle"
    /\ Len(up.issued) = 1
    /\ up.issued[1].op = "create"
    /\ up.issued[1].queried = NoPage
    /\ up.result.cause = "refused"
    /\ \E pg \in RemotePageAt(Trim(up.pathInput)) : pg.by = Other /\ pg.updates = 0

\* C28: when a page exists at the target path and the user declines the
\* update, the attempt ends without a remote mutation: no asset folder is
\* created, no asset is uploaded, and no page is created or updated.
C28_DeclineMutatesNothing ==
    /\ [](up.answer = "no" =>
              /\ up.pc = "idle"
              /\ up.issued = <<>>
              /\ up.outcomes = <<>>
              /\ up.placed = <<>>)
    /\ [][up.pc = "confirm" /\ up'.answer = "no" =>
              /\ folders' = folders
              /\ assets' = assets
              /\ pages' = pages
              /\ cl'[Uploader] = cl[Uploader]]_vars

\* the user has declined the update of a page of the other actor
C28_Witness ==
    /\ up.answer = "no"
    /\ up.queried # NoPage
    /\ \E pg \in RemotePageAt(Trim(up.pathInput)) : pg.by = Other

\* the notices an attempt ends with
EndNotices ==
    {"Successfully", "Failed to", "Error uploading page",
     "Path cannot be empty", "Title cannot be empty"}

\* C29: every upload attempt that passes validation finishes: it never stays
\* blocked on the confirmation dialog (no state of an attempt is one that no
\* answer of a remote call and no button can end), and once it has finished it
\* has ended with a success notice, a failure notice or a declined
\* confirmation, the dialog being ready for the next attempt.
C29_AttemptFinishes ==
    /\ up.pc # "blocked"
    /\ up.pc = "idle" /\ up.attempts > 0 =>
           \/ up.answer = "no"
           \/ up.notices # <<>> /\ up.notices[Len(up.notices)] \in EndNotices

\* the confirmation dialog was closed without one of its buttons
C29_Witness ==
    /\ up.pc = "blocked"
    /\ up.queried # NoPage

====
